---------------------------- MODULE Spec2Model ----------------------------
(***************************************************************************)
(* Model of the tax engine of stocks-simulation                            *)
(* (src/utils/taxCalculations.ts and src/utils/section102.ts).             *)
(*                                                                         *)
(* Arithmetic.  The engine computes on JavaScript numbers; the model uses  *)
(* exact fixed-point integers.  Incomes are whole shekels.  A rate r of a  *)
(* bracket table is stored as the integer r * RateScale (income tax and    *)
(* surtax) or r * NIRateScale (national insurance), so a tax amount is an  *)
(* integer number of 1/RateScale (1/NIRateScale) shekels.  The value       *)
(* Infinity of the tables is an integer above every amount of the model.   *)
(*                                                                         *)
(* Equalities between amounts are therefore equalities of exact numbers;   *)
(* the roundings of IEEE doubles are not part of the model.                *)
(*                                                                         *)
(* Dates.  A Date is the record of its local calendar fields; the          *)
(* date-fns functions are modelled by their algorithm (differenceInMonths  *)
(* with its end-of-February rule) on a calendar without daylight saving.   *)
(*                                                                         *)
(* The engine is a library of pure functions: every function is an         *)
(* operator below, and a specification draws the arguments of a scenario   *)
(* in Init and has one action per function of the engine it calls.  The    *)
(* two bracket tables are the only state of the module that outlives a     *)
(* call; they are variables that no action changes.                        *)
(***************************************************************************)
EXTENDS Integers, Sequences, FiniteSets, TLC

VARIABLES
    taxBrackets,                \* the module's array TAX_BRACKETS
    nationalInsuranceBrackets,  \* the module's array NATIONAL_INSURANCE_BRACKETS
    baseIncome,         \* argument: annual income already earned
    additionalIncome,   \* argument: first additional income on top of it
    additionalIncome2,  \* argument: second additional income on top of both
    progressiveTax,     \* results of calculateProgressiveTax
    additionalTax,      \* results of calculateAdditionalProgressiveTax
    marginalRate,       \* result of getMarginalTaxRate(baseIncome)
    baseMonthlySalaryIls,        \* argument: monthly salary
    additionalMonthlyIncomeIls,  \* argument: monthly income on top of it
    nationalInsurance,  \* results of calculateNationalInsuranceMonthly
    additionalNI,       \* result of calculateAdditionalNationalInsurance
    annualLaborIncomeIls,    \* argument: annual labor income
    annualPassiveIncomeIls,  \* argument: annual passive income
    surtax,             \* result of calculateSurtax
    grant,              \* argument: the grant (grantDate, isSection102)
    currentDate,        \* argument: the as-of date
    holdingPeriodMet,   \* result of hasMetSection102HoldingPeriod
    section102Status,   \* result of getSection102Status
    monthsUntilEligible, \* result of getMonthsUntilSection102Eligible
    daysUntilEligible,  \* result of getDaysUntilSection102Eligible
    purchaseDate,       \* argument: grant.purchaseDate of an ESPP grant
    vestingFrom,        \* argument: grant.vestingFrom of an ESPP grant
    esppHoldingPeriodMet,         \* holdingPeriodMet of calculateESPPNetValue
    overviewHoldingPeriodMet,     \* holdingPeriodMet of Overview
    exerciseFormHoldingPeriodMet, \* holdingPeriodMet of ExerciseForm
    marginalTaxRate,    \* tax settings store: marginalTaxRate
    annualIncome,       \* tax settings store: annualIncome
    useProgressiveTax,  \* tax settings store: useProgressiveTax
    isControllingShareholder, \* tax settings store: isControllingShareholder
    taxGrant,           \* argument: the grant of calculateTaxForGrant
    shares,             \* argument: the number of shares
    currentPrice,       \* argument: the market price, in cents
    usdToIls,           \* argument: the exchange rate, in hundredths
    exerciseDate,       \* argument: the as-of date of the calculation
    taxResult,          \* result of calculateTaxForGrant
    repeated,           \* results of the second calls of the computations
    esppGrant,          \* argument: the ESPP grant
    esppSalePrice,      \* argument: the price of the sale, in cents
    esppTaxRate,        \* argument: the marginal rate, in 1 / RateScale
    esppNow,            \* the date of the call ("new Date()")
    esppTax,            \* result of calculateESPPTax
    esppNetValue,       \* result of calculateESPPNetValue
    vestingGrant,       \* argument: amount, start, years and type of a grant
    vestingDate,        \* argument: a current date
    vestingLaterDate,   \* argument: a current date that is not earlier
    vestedShares,       \* results of calculateVestedShares
    grants,             \* grants store: the grants
    exercises           \* exercises store: the exercises

taxVars == <<baseIncome, additionalIncome, additionalIncome2,
             progressiveTax, additionalTax, marginalRate>>
niVars == <<baseMonthlySalaryIls, additionalMonthlyIncomeIls,
            nationalInsurance, additionalNI>>
surtaxVars == <<annualLaborIncomeIls, annualPassiveIncomeIls, surtax>>

tableVars == <<taxBrackets, nationalInsuranceBrackets>>

s102Vars == <<grant, currentDate, holdingPeriodMet, section102Status,
              monthsUntilEligible>>

siteVars == <<daysUntilEligible, purchaseDate, vestingFrom,
              esppHoldingPeriodMet, overviewHoldingPeriodMet,
              exerciseFormHoldingPeriodMet>>

settingsVars == <<marginalTaxRate, annualIncome, useProgressiveTax,
                  isControllingShareholder>>

grantTaxVars == <<taxGrant, shares, currentPrice, usdToIls, exerciseDate,
                  taxResult>>

repeatVars == <<repeated>>

\* The variables of the scenarios of the second calls and after, and the
\* variables of the scenarios before them.
esppVars == <<esppGrant, esppSalePrice, esppTaxRate, esppNow, esppTax,
              esppNetValue>>
vestingVars == <<vestingGrant, vestingDate, vestingLaterDate,
                 vestedShares>>
storeVars == <<grants, exercises>>
otherVars == <<repeatVars, esppVars, vestingVars, storeVars>>
firstVars == <<taxVars, niVars, surtaxVars, s102Vars, siteVars, settingsVars,
               grantTaxVars>>

vars == <<tableVars, firstVars, otherVars>>

Min(a, b) == IF a <= b THEN a ELSE b
Max(a, b) == IF a >= b THEN a ELSE b

\* A result that no call has produced yet.
NotCalled == [called |-> FALSE]

-----------------------------------------------------------------------------
(* Bracket tables and rate constants: taxCalculations.ts lines 5-29.       *)

Infinity == 1000000000

RateScale == 100

TAX_BRACKETS_Gap ==
    << [min |-> 0,      max |-> 84120,    rate |-> 10],
       [min |-> 84120,  max |-> 120720,   rate |-> 14],
       [min |-> 120270, max |-> 193800,   rate |-> 20],
       [min |-> 193800, max |-> 269280,   rate |-> 31],
       [min |-> 269280, max |-> 560280,   rate |-> 35],
       [min |-> 560280, max |-> 721560,   rate |-> 47],
       [min |-> 721560, max |-> Infinity, rate |-> 50] >>

TAX_BRACKETS ==
    << [min |-> 0,      max |-> 84120,    rate |-> 10],
       [min |-> 84120,  max |-> 120720,   rate |-> 14],
       [min |-> 120720, max |-> 193800,   rate |-> 20],
       [min |-> 193800, max |-> 269280,   rate |-> 31],
       [min |-> 269280, max |-> 560280,   rate |-> 35],
       [min |-> 560280, max |-> 721560,   rate |-> 47],
       [min |-> 721560, max |-> Infinity, rate |-> 50] >>

NIRateScale == 10000

\* Bug variant: the table without the row of the cap.
NATIONAL_INSURANCE_BRACKETS_NoCap ==
    << [min |-> 0,     max |-> 7522,     rate |-> 427],
       [min |-> 7522,  max |-> Infinity, rate |-> 1217] >>

NATIONAL_INSURANCE_BRACKETS ==
    << [min |-> 0,     max |-> 7522,     rate |-> 427],
       [min |-> 7522,  max |-> 50695,    rate |-> 1217],
       [min |-> 50695, max |-> Infinity, rate |-> 0] >>

\* The monthly income above which the contribution is capped (the ceiling
\* of the 12.17% row).
NI_CAP == 50695

SURTAX_THRESHOLD == 721560
SURTAX_LABOR_RATE == 3
SURTAX_PASSIVE_RATE == 5

-----------------------------------------------------------------------------
(* calculateProgressiveTax: taxCalculations.ts lines 55-70.                *)

\* The for loop, from bracket i on, with the loop's two locals.
RECURSIVE ProgressiveTaxLoop(_, _, _)
ProgressiveTaxLoop(i, tax, remainingIncome) ==
    IF i > Len(taxBrackets) THEN tax
    ELSE IF remainingIncome <= 0 THEN tax
    ELSE LET bracket == taxBrackets[i]
             bracketIncome == Min(remainingIncome, bracket.max - bracket.min)
             tax2 == tax + bracketIncome * bracket.rate
         IN  IF bracket.max = Infinity THEN tax2
             ELSE ProgressiveTaxLoop(i + 1, tax2, remainingIncome - bracketIncome)

\* Bug variant: "tax = ..." where the code has "tax += ...".
RECURSIVE ProgressiveTaxLoop_Assign(_, _, _)
ProgressiveTaxLoop_Assign(i, tax, remainingIncome) ==
    IF i > Len(taxBrackets) THEN tax
    ELSE IF remainingIncome <= 0 THEN tax
    ELSE LET bracket == taxBrackets[i]
             bracketIncome == Min(remainingIncome, bracket.max - bracket.min)
             tax2 == bracketIncome * bracket.rate
         IN  IF bracket.max = Infinity THEN tax2
             ELSE ProgressiveTaxLoop_Assign(i + 1, tax2, remainingIncome - bracketIncome)

calculateProgressiveTax_Assign(income) == ProgressiveTaxLoop_Assign(1, 0, income)

\* Bug variant: the whole income is charged the rate of the bracket it reaches.
calculateProgressiveTax_Flat(income) ==
    IF income <= 0 THEN 0
    ELSE LET i == CHOOSE k \in 1..Len(taxBrackets) :
                      /\ taxBrackets[k].min < income
                      /\ income <= taxBrackets[k].max
         IN  income * taxBrackets[i].rate

calculateProgressiveTax(income) == ProgressiveTaxLoop(1, 0, income)

-----------------------------------------------------------------------------
(* calculateAdditionalProgressiveTax: taxCalculations.ts lines 75-82.      *)

\* Bug variant: the additional income is taxed from the first bracket.
calculateAdditionalProgressiveTax_FromZero(income, additional) ==
    calculateProgressiveTax(additional)

calculateAdditionalProgressiveTax(income, additional) ==
    LET taxWithAdditional == calculateProgressiveTax(income + additional)
        taxWithoutAdditional == calculateProgressiveTax(income)
    IN  taxWithAdditional - taxWithoutAdditional

-----------------------------------------------------------------------------
(* getMarginalTaxRate: taxCalculations.ts lines 87-94.                     *)

RECURSIVE MarginalRateLoop(_, _)
MarginalRateLoop(i, income) ==
    IF i > Len(taxBrackets) THEN taxBrackets[Len(taxBrackets)].rate
    ELSE LET bracket == taxBrackets[i]
         IN  IF income >= bracket.min /\ income < bracket.max
             THEN bracket.rate
             ELSE MarginalRateLoop(i + 1, income)

\* Bug variant: "income > min && income <= max".
RECURSIVE MarginalRateLoop_Closed(_, _)
MarginalRateLoop_Closed(i, income) ==
    IF i > Len(taxBrackets) THEN taxBrackets[Len(taxBrackets)].rate
    ELSE LET bracket == taxBrackets[i]
         IN  IF income > bracket.min /\ income <= bracket.max
             THEN bracket.rate
             ELSE MarginalRateLoop_Closed(i + 1, income)

getMarginalTaxRate_Closed(income) == MarginalRateLoop_Closed(1, income)

getMarginalTaxRate(income) == MarginalRateLoop(1, income)

-----------------------------------------------------------------------------
(* calculateNationalInsuranceMonthly: taxCalculations.ts lines 100-115.    *)

RECURSIVE NationalInsuranceLoop(_, _, _)
NationalInsuranceLoop(i, tax, remainingIncome) ==
    IF i > Len(nationalInsuranceBrackets) THEN tax
    ELSE IF remainingIncome <= 0 THEN tax
    ELSE LET bracket == nationalInsuranceBrackets[i]
             bracketIncome == Min(remainingIncome, bracket.max - bracket.min)
             tax2 == tax + bracketIncome * bracket.rate
         IN  IF bracket.max = Infinity THEN tax2
             ELSE NationalInsuranceLoop(i + 1, tax2,
                                        remainingIncome - bracketIncome)

calculateNationalInsuranceMonthly(monthlyEmploymentIncomeIls) ==
    NationalInsuranceLoop(1, 0, monthlyEmploymentIncomeIls)

(* calculateAdditionalNationalInsurance: taxCalculations.ts lines 120-128. *)

calculateAdditionalNationalInsurance(baseMonthly, additionalMonthly) ==
    LET totalMonthly == baseMonthly + additionalMonthly
        taxWithAdditional == calculateNationalInsuranceMonthly(totalMonthly)
        taxWithoutAdditional == calculateNationalInsuranceMonthly(baseMonthly)
    IN  taxWithAdditional - taxWithoutAdditional

-----------------------------------------------------------------------------
(* calculateSurtax: taxCalculations.ts lines 133-158.                      *)

\* Bug variant: the passive income absorbs the excess first.
calculateSurtax_PassiveFirst(laborIncome, passiveIncome) ==
    LET totalIncome == laborIncome + passiveIncome
    IN  IF totalIncome <= SURTAX_THRESHOLD
        THEN [laborSurtax |-> 0, passiveSurtax |-> 0, totalSurtax |-> 0]
        ELSE LET excessIncome == totalIncome - SURTAX_THRESHOLD
                 passiveExcess == Min(excessIncome, passiveIncome)
                 passiveSurtax == passiveExcess * SURTAX_PASSIVE_RATE
                 laborExcess == Max(0, excessIncome - passiveExcess)
                 laborSurtax == laborExcess * SURTAX_LABOR_RATE
             IN  [laborSurtax |-> laborSurtax,
                  passiveSurtax |-> passiveSurtax,
                  totalSurtax |-> laborSurtax + passiveSurtax]

calculateSurtax(laborIncome, passiveIncome) ==
    LET totalIncome == laborIncome + passiveIncome
    IN  IF totalIncome <= SURTAX_THRESHOLD
        THEN [laborSurtax |-> 0, passiveSurtax |-> 0, totalSurtax |-> 0]
        ELSE LET excessIncome == totalIncome - SURTAX_THRESHOLD
                 laborExcess == Min(excessIncome, laborIncome)
                 laborSurtax == laborExcess * SURTAX_LABOR_RATE
                 passiveExcess == Max(0, excessIncome - laborExcess)
                 passiveSurtax == passiveExcess * SURTAX_PASSIVE_RATE
             IN  [laborSurtax |-> laborSurtax,
                  passiveSurtax |-> passiveSurtax,
                  totalSurtax |-> laborSurtax + passiveSurtax]

-----------------------------------------------------------------------------
(* Dates.  A Date is a record of its local calendar fields: year, month    *)
(* (0 = January, as getMonth), date (day of the month, as getDate) and     *)
(* hours (the time of day).  The operators follow the JavaScript Date       *)
(* setters and the date-fns functions that section102.ts imports.           *)

isLeapYear(year) ==
    (year % 4 = 0 /\ year % 100 # 0) \/ year % 400 = 0

getDaysInMonth(year, month) ==
    IF month = 1 THEN (IF isLeapYear(year) THEN 29 ELSE 28)
    ELSE IF month \in {3, 5, 8, 10} THEN 30
    ELSE 31

\* The Date that JavaScript makes of calendar fields out of their range:
\* months roll over into years and days roll over into months.
RECURSIVE MakeDate(_, _, _, _)
MakeDate(year, month, date, hours) ==
    IF month < 0 THEN MakeDate(year - 1, month + 12, date, hours)
    ELSE IF month > 11 THEN MakeDate(year + 1, month - 12, date, hours)
    ELSE IF date < 1
         THEN IF month = 0
              THEN MakeDate(year - 1, 11, date + 31, hours)
              ELSE MakeDate(year, month - 1,
                            date + getDaysInMonth(year, month - 1), hours)
    ELSE IF date > getDaysInMonth(year, month)
         THEN MakeDate(year, month + 1,
                       date - getDaysInMonth(year, month), hours)
    ELSE [year |-> year, month |-> month, date |-> date, hours |-> hours]

\* Date.prototype.setDate and Date.prototype.setMonth.
setDate(d, date) == MakeDate(d.year, d.month, date, d.hours)
setMonth(d, month) == MakeDate(d.year, month, d.date, d.hours)

\* date-fns compareAsc: 1, -1 or 0 as the first date is after, before or
\* equal to the second.
compareAsc(dateLeft, dateRight) ==
    LET l == <<dateLeft.year, dateLeft.month, dateLeft.date, dateLeft.hours>>
        r == <<dateRight.year, dateRight.month, dateRight.date, dateRight.hours>>
        firstDiff == { i \in 1..4 : l[i] # r[i] /\ \A j \in 1..(i - 1) : l[j] = r[j] }
    IN  IF firstDiff = {} THEN 0
        ELSE LET i == CHOOSE k \in firstDiff : TRUE
             IN  IF l[i] > r[i] THEN 1 ELSE 0 - 1

Abs(n) == IF n < 0 THEN 0 - n ELSE n

\* date-fns differenceInCalendarMonths.
differenceInCalendarMonths(dateLeft, dateRight) ==
    (dateLeft.year - dateRight.year) * 12 + (dateLeft.month - dateRight.month)

\* date-fns isLastDayOfMonth.
isLastDayOfMonth(d) == d.date = getDaysInMonth(d.year, d.month)

\* date-fns differenceInMonths: the number of full months between the dates.
differenceInMonths(dateLeft, dateRight) ==
    LET sign == compareAsc(dateLeft, dateRight)
        difference == Abs(differenceInCalendarMonths(dateLeft, dateRight))
    IN  IF difference < 1 THEN 0
        ELSE LET \* end of February: take a later day of the month to compare
                 endOfFeb == IF dateLeft.month = 1 /\ dateLeft.date > 27
                             THEN setDate(dateLeft, 30)
                             ELSE dateLeft
                 moved == setMonth(endOfFeb, endOfFeb.month - sign * difference)
                 isLastMonthNotFull ==
                     IF /\ isLastDayOfMonth(dateLeft)
                        /\ difference = 1
                        /\ compareAsc(dateLeft, dateRight) = 1
                     THEN FALSE
                     ELSE compareAsc(moved, dateRight) = 0 - sign
             IN  sign * (difference - (IF isLastMonthNotFull THEN 1 ELSE 0))

\* date-fns addMonths: the same day of the month, or the last day of the
\* month when the month is shorter; the time of day is kept.
addMonths(d, amount) ==
    LET dayOfMonth == d.date
        endOfDesiredMonth == MakeDate(d.year, d.month + amount + 1, 0, d.hours)
        daysInMonth == endOfDesiredMonth.date
    IN  IF dayOfMonth >= daysInMonth THEN endOfDesiredMonth
        ELSE [endOfDesiredMonth EXCEPT !.date = dayOfMonth]

\* date-fns addYears and addDays.
addYears(d, amount) == addMonths(d, amount * 12)
addDays(d, amount) == setDate(d, d.date + amount)

\* Days from 1 January of year 1 to 1 January of the year.
DaysBeforeYear(year) ==
    LET y == year - 1
    IN  365 * y + (y \div 4) - (y \div 100) + (y \div 400)

RECURSIVE DaysBeforeMonth(_, _)
DaysBeforeMonth(year, month) ==
    IF month = 0 THEN 0
    ELSE DaysBeforeMonth(year, month - 1) + getDaysInMonth(year, month - 1)

\* The number of the calendar day of a date.
DayNumber(d) == DaysBeforeYear(d.year) + DaysBeforeMonth(d.year, d.month) + d.date

\* date-fns differenceInCalendarDays.
differenceInCalendarDays(dateLeft, dateRight) ==
    DayNumber(dateLeft) - DayNumber(dateRight)

\* date-fns differenceInDays: the number of full days between the dates.
differenceInDays(dateLeft, dateRight) ==
    LET sign == compareAsc(dateLeft, dateRight)
        difference == Abs(differenceInCalendarDays(dateLeft, dateRight))
        moved == setDate(dateLeft, dateLeft.date - sign * difference)
        isLastDayNotFull == compareAsc(moved, dateRight) = 0 - sign
    IN  sign * (difference - (IF isLastDayNotFull THEN 1 ELSE 0))

-----------------------------------------------------------------------------
(* section102.ts (src/unnamed/part_009).                                   *)

SECTION_102_HOLDING_PERIOD_MONTHS == 24

\* Bug variant: "monthsSinceGrant > 24".
hasMetSection102HoldingPeriod_Strict(g, date) ==
    LET isSection102 == g.isSection102 # "false"
    IN  IF ~isSection102 THEN FALSE
        ELSE LET monthsSinceGrant == differenceInMonths(date, g.grantDate)
             IN  monthsSinceGrant > SECTION_102_HOLDING_PERIOD_MONTHS

\* hasMetSection102HoldingPeriod: lines 11-19.  isSection102 is optional:
\* its value is "true", "false" or "undefined".
hasMetSection102HoldingPeriod(g, date) ==
    LET isSection102 == g.isSection102 # "false"
    IN  IF ~isSection102 THEN FALSE
        ELSE LET monthsSinceGrant == differenceInMonths(date, g.grantDate)
             IN  monthsSinceGrant >= SECTION_102_HOLDING_PERIOD_MONTHS

\* getSection102EligibilityDate: lines 24-26.
getSection102EligibilityDate(g) == addYears(g.grantDate, 2)

\* getDaysUntilSection102Eligible: lines 31-38.
getDaysUntilSection102Eligible(g, date) ==
    LET isSection102 == g.isSection102 # "false"
    IN  IF ~isSection102 THEN 0
        ELSE IF hasMetSection102HoldingPeriod(g, date) THEN 0
        ELSE LET eligibilityDate == getSection102EligibilityDate(g)
             IN  Max(0, differenceInDays(eligibilityDate, date))

\* getMonthsUntilSection102Eligible: lines 43-50.
getMonthsUntilSection102Eligible(g, date) ==
    LET isSection102 == g.isSection102 # "false"
    IN  IF ~isSection102 THEN 0
        ELSE IF hasMetSection102HoldingPeriod(g, date) THEN 0
        ELSE LET monthsSinceGrant == differenceInMonths(date, g.grantDate)
             IN  Max(0, SECTION_102_HOLDING_PERIOD_MONTHS - monthsSinceGrant)

\* formatSection102TimeRemaining: lines 55-68.
formatSection102TimeRemaining(g, date) ==
    LET isSection102 == g.isSection102 # "false"
    IN  IF ~isSection102 THEN "Not Section 102"
        ELSE IF hasMetSection102HoldingPeriod(g, date) THEN "Eligible"
        ELSE LET daysRemaining == getDaysUntilSection102Eligible(g, date)
                 monthsRemaining == daysRemaining \div 30
                 daysInMonth == daysRemaining % 30
             IN  IF monthsRemaining > 0
                 THEN ToString(monthsRemaining) \o "m "
                         \o ToString(daysInMonth) \o "d"
                 ELSE ToString(daysRemaining) \o "d"

\* Bug variant: the check of isSection102 is missing.
getSection102Status_NoTrackCheck(g, date) ==
    IF hasMetSection102HoldingPeriod(g, date)
    THEN [status |-> "eligible", text |-> "check mark", color |-> "green"]
    ELSE [status |-> "waiting",
          text |-> formatSection102TimeRemaining(g, date),
          color |-> "yellow"]

\* getSection102Status: lines 117-147.  The text of an eligible grant is a
\* check mark.
getSection102Status(g, date) ==
    LET isSection102 == g.isSection102 # "false"
    IN  IF ~isSection102
        THEN [status |-> "not-applicable", text |-> "Not 102",
              color |-> "gray"]
        ELSE IF hasMetSection102HoldingPeriod(g, date)
        THEN [status |-> "eligible", text |-> "check mark", color |-> "green"]
        ELSE LET timeRemaining == formatSection102TimeRemaining(g, date)
             IN  [status |-> "waiting", text |-> timeRemaining,
                  color |-> "yellow"]

-----------------------------------------------------------------------------
(* Amounts that are not whole shekels.  The grant calculations multiply    *)
(* and divide by the exchange rate and by 12; their amounts are exact      *)
(* fractions n / d with d > 0 and n, d without a common divisor.  The      *)
(* results of a division by zero have d = 0: 0 / 0 is NaN, 1 / 0 is        *)
(* Infinity and -1 / 0 is -Infinity, with the arithmetic of IEEE 754.      *)

RECURSIVE GCD(_, _)
GCD(a, b) == IF b = 0 THEN a ELSE GCD(b, a % b)

Sign(n) == IF n > 0 THEN 1 ELSE IF n < 0 THEN 0 - 1 ELSE 0

\* The fraction n / d (d >= 0) in lowest terms.
Frac(n, d) ==
    IF d = 0 THEN [n |-> Sign(n), d |-> 0]
    ELSE LET g == GCD(Abs(n), d)
         IN  [n |-> n \div g, d |-> d \div g]

Num(k) == [n |-> k, d |-> 1]

Zero == Num(0)

NaN == [n |-> 0, d |-> 0]
IsFinite(a) == a.d # 0

QAdd(a, b) ==
    IF ~IsFinite(a) /\ ~IsFinite(b) THEN (IF a.n = b.n THEN a ELSE NaN)
    ELSE IF ~IsFinite(a) THEN a
    ELSE IF ~IsFinite(b) THEN b
    ELSE LET g == GCD(a.d, b.d)
         IN  Frac(a.n * (b.d \div g) + b.n * (a.d \div g),
                  (a.d \div g) * b.d)

QNeg(a) == [n |-> 0 - a.n, d |-> a.d]

QSub(a, b) == QAdd(a, QNeg(b))

QMul(a, b) ==
    IF ~IsFinite(a) \/ ~IsFinite(b)
    THEN [n |-> Sign(a.n) * Sign(b.n), d |-> 0]
    ELSE LET g1 == GCD(Abs(a.n), b.d)
             g2 == GCD(Abs(b.n), a.d)
         IN  [n |-> (a.n \div g1) * (b.n \div g2),
              d |-> (a.d \div g2) * (b.d \div g1)]

\* a / b: a times the reciprocal of b; the reciprocal of 0 is Infinity.
QDiv(a, b) ==
    QMul(a, [n |-> (IF b.n < 0 THEN 0 - b.d ELSE b.d), d |-> Abs(b.n)])

\* a <= b for finite a and b.
QLe(a, b) ==
    LET g == GCD(a.d, b.d)
    IN  a.n * (b.d \div g) <= b.n * (a.d \div g)

QLt(a, b) == ~QLe(b, a)

QMin(a, b) == IF QLe(a, b) THEN a ELSE b
QMax(a, b) == IF QLe(b, a) THEN a ELSE b

\* A nullable number of the settings: null, or a value.
Null == [null |-> TRUE, value |-> 0]
Value(v) == [null |-> FALSE, value |-> v]

-----------------------------------------------------------------------------
(* The bracket functions of taxCalculations.ts on amounts that are         *)
(* fractions; the results are amounts in shekels.                          *)

\* calculateProgressiveTax: lines 55-70.
RECURSIVE ProgressiveTaxLoopQ(_, _, _)
ProgressiveTaxLoopQ(i, tax, remainingIncome) ==
    IF i > Len(taxBrackets) THEN tax
    ELSE IF QLe(remainingIncome, Zero) THEN tax
    ELSE LET bracket == taxBrackets[i]
             \* Math.min(remainingIncome, Infinity - min) is remainingIncome
             bracketIncome ==
                 IF bracket.max = Infinity THEN remainingIncome
                 ELSE QMin(remainingIncome, Num(bracket.max - bracket.min))
             tax2 == QAdd(tax, QMul(bracketIncome,
                                    Frac(bracket.rate, RateScale)))
         IN  IF bracket.max = Infinity THEN tax2
             ELSE ProgressiveTaxLoopQ(i + 1, tax2,
                                      QSub(remainingIncome, bracketIncome))

calculateProgressiveTaxQ(income) == ProgressiveTaxLoopQ(1, Zero, income)

\* Bug variant: the tax of the additional income alone, as if it were the
\* only income.
calculateAdditionalProgressiveTaxQ_FromZero(income, additional) ==
    calculateProgressiveTaxQ(additional)

\* calculateAdditionalProgressiveTax: lines 75-82.
calculateAdditionalProgressiveTaxQ(income, additional) ==
    LET taxWithAdditional == calculateProgressiveTaxQ(QAdd(income, additional))
        taxWithoutAdditional == calculateProgressiveTaxQ(income)
    IN  QSub(taxWithAdditional, taxWithoutAdditional)

\* calculateNationalInsuranceMonthly: lines 100-115.
RECURSIVE NationalInsuranceLoopQ(_, _, _)
NationalInsuranceLoopQ(i, tax, remainingIncome) ==
    IF i > Len(nationalInsuranceBrackets) THEN tax
    ELSE IF QLe(remainingIncome, Zero) THEN tax
    ELSE LET bracket == nationalInsuranceBrackets[i]
             \* Math.min(remainingIncome, Infinity - min) is remainingIncome
             bracketIncome ==
                 IF bracket.max = Infinity THEN remainingIncome
                 ELSE QMin(remainingIncome, Num(bracket.max - bracket.min))
             tax2 == QAdd(tax, QMul(bracketIncome,
                                    Frac(bracket.rate, NIRateScale)))
         IN  IF bracket.max = Infinity THEN tax2
             ELSE NationalInsuranceLoopQ(i + 1, tax2,
                                         QSub(remainingIncome, bracketIncome))

calculateNationalInsuranceMonthlyQ(monthlyEmploymentIncomeIls) ==
    NationalInsuranceLoopQ(1, Zero, monthlyEmploymentIncomeIls)

\* Bug variant: the contribution of the additional amount alone, as if there
\* were no base income.
calculateAdditionalNationalInsuranceQ_FromZero(baseMonthly, additionalMonthly) ==
    calculateNationalInsuranceMonthlyQ(additionalMonthly)

\* calculateAdditionalNationalInsurance: lines 120-128.
calculateAdditionalNationalInsuranceQ(baseMonthly, additionalMonthly) ==
    LET totalMonthly == QAdd(baseMonthly, additionalMonthly)
        taxWithAdditional == calculateNationalInsuranceMonthlyQ(totalMonthly)
        taxWithoutAdditional == calculateNationalInsuranceMonthlyQ(baseMonthly)
    IN  QSub(taxWithAdditional, taxWithoutAdditional)

\* calculateSurtax: lines 133-158.
calculateSurtaxQ(laborIncome, passiveIncome) ==
    LET totalIncome == QAdd(laborIncome, passiveIncome)
    IN  IF QLe(totalIncome, Num(SURTAX_THRESHOLD))
        THEN [laborSurtax |-> Zero, passiveSurtax |-> Zero,
              totalSurtax |-> Zero]
        ELSE LET excessIncome == QSub(totalIncome, Num(SURTAX_THRESHOLD))
                 laborExcess == QMin(excessIncome, laborIncome)
                 laborSurtax == QMul(laborExcess,
                                     Frac(SURTAX_LABOR_RATE, RateScale))
                 passiveExcess == QMax(Zero, QSub(excessIncome, laborExcess))
                 passiveSurtax == QMul(passiveExcess,
                                       Frac(SURTAX_PASSIVE_RATE, RateScale))
             IN  [laborSurtax |-> laborSurtax,
                  passiveSurtax |-> passiveSurtax,
                  totalSurtax |-> QAdd(laborSurtax, passiveSurtax)]

-----------------------------------------------------------------------------
(* The grant calculations of taxCalculations.ts: lines 163-398.  Prices    *)
(* are whole cents of a dollar and the exchange rate is whole hundredths   *)
(* of a shekel per dollar; a TaxSettings value is the record of the four   *)
(* fields of the settings, a rate of the settings is in 1 / RateScale.     *)

PriceScale == 100
ExchangeRateScale == 100

CAPITAL_GAINS_RATE_CONTROLLING == 30

\* Bug variant: the rate of a controlling shareholder is charged to everyone.
CAPITAL_GAINS_RATE_Controlling == CAPITAL_GAINS_RATE_CONTROLLING

CAPITAL_GAINS_RATE == 25

\* Bug variant: the fallback is the rate of the last row of TAX_BRACKETS.
FallbackRate_TopBracket == TAX_BRACKETS[Len(TAX_BRACKETS)].rate

\* The fallback rate of lines 203, 238 and 340.
FallbackRate == 47

\* calculateRSUTax: lines 163-278.
calculateRSUTax(g, sh, price, taxSettings, rate, date) ==
    LET usd == Frac(rate, ExchangeRateScale)
        grossGain == Frac(sh * price, PriceScale)
        grantValue == Frac(sh * g.price, PriceScale)
        appreciation == QSub(grossGain, grantValue)
        grossGainIls == QMul(grossGain, usd)
        grantValueIls == QMul(grantValue, usd)
        appreciationIls == QMul(appreciation, usd)
        isSection102 == g.isSection102 # "false"
        isEligibleForSection102 ==
            isSection102 /\ hasMetSection102HoldingPeriod(g, date)
        hasAnnualIncome ==
            ~taxSettings.annualIncome.null /\ taxSettings.annualIncome.value > 0
        \* lines 188-224: the capital-gains track
        cgIncomeTax ==
            IF taxSettings.useProgressiveTax
            THEN IF hasAnnualIncome
                 THEN calculateAdditionalProgressiveTaxQ(
                          Num(taxSettings.annualIncome.value), grantValueIls)
                 ELSE calculateProgressiveTaxQ(grantValueIls)
            ELSE IF ~taxSettings.marginalTaxRate.null
            THEN QMul(grantValueIls,
                      Frac(taxSettings.marginalTaxRate.value, RateScale))
            ELSE QMul(grantValueIls, Frac(FallbackRate, RateScale))
        cgNationalInsurance ==
            IF hasAnnualIncome
            THEN LET baseMonthlySalary ==
                         Frac(taxSettings.annualIncome.value, 12)
                     additionalMonthlyIncome == QDiv(grantValueIls, Num(12))
                 IN  QMul(calculateAdditionalNationalInsuranceQ(
                              baseMonthlySalary, additionalMonthlyIncome),
                          Num(12))
            ELSE LET monthlyAmount == QDiv(grantValueIls, Num(12))
                 IN  QMul(calculateNationalInsuranceMonthlyQ(monthlyAmount),
                          Num(12))
        cgRate == IF taxSettings.isControllingShareholder
                  THEN CAPITAL_GAINS_RATE_CONTROLLING
                  ELSE CAPITAL_GAINS_RATE
        cgCapitalGainsTax == QMul(appreciationIls, Frac(cgRate, RateScale))
        cgSurtax == calculateSurtaxQ(Zero, appreciationIls).passiveSurtax
        \* lines 225-258: the whole amount as employment income
        ordIncomeTax ==
            IF taxSettings.useProgressiveTax
            THEN IF hasAnnualIncome
                 THEN calculateAdditionalProgressiveTaxQ(
                          Num(taxSettings.annualIncome.value), grossGainIls)
                 ELSE calculateProgressiveTaxQ(grossGainIls)
            ELSE IF ~taxSettings.marginalTaxRate.null
            THEN QMul(grossGainIls,
                      Frac(taxSettings.marginalTaxRate.value, RateScale))
            ELSE QMul(grossGainIls, Frac(FallbackRate, RateScale))
        ordNationalInsurance ==
            IF hasAnnualIncome
            THEN LET baseMonthlySalary ==
                         Frac(taxSettings.annualIncome.value, 12)
                     additionalMonthlyIncome == QDiv(grossGainIls, Num(12))
                 IN  QMul(calculateAdditionalNationalInsuranceQ(
                              baseMonthlySalary, additionalMonthlyIncome),
                          Num(12))
            ELSE LET monthlyAmount == QDiv(grossGainIls, Num(12))
                 IN  QMul(calculateNationalInsuranceMonthlyQ(monthlyAmount),
                          Num(12))
        \* "annualIncome || 0"
        currentAnnualIncome ==
            IF taxSettings.annualIncome.null
                  \/ taxSettings.annualIncome.value = 0
            THEN Zero
            ELSE Num(taxSettings.annualIncome.value)
        ordSurtax ==
            QSub(calculateSurtaxQ(QAdd(currentAnnualIncome, grossGainIls),
                                  Zero).laborSurtax,
                 calculateSurtaxQ(currentAnnualIncome, Zero).laborSurtax)
        capitalGainsTrack ==
            isEligibleForSection102 /\ g.section102Track = "capital-gains"
        incomeTaxIls == IF capitalGainsTrack THEN cgIncomeTax ELSE ordIncomeTax
        nationalInsuranceIls ==
            IF capitalGainsTrack THEN cgNationalInsurance
            ELSE ordNationalInsurance
        capitalGainsTaxIls == IF capitalGainsTrack THEN cgCapitalGainsTax ELSE Zero
        surtaxIls == IF capitalGainsTrack THEN cgSurtax ELSE ordSurtax
        totalTaxIls ==
            QAdd(QAdd(QAdd(incomeTaxIls, nationalInsuranceIls), capitalGainsTaxIls),
                 surtaxIls)
        totalTaxUsd == QDiv(totalTaxIls, usd)
        netGain == QSub(grossGain, totalTaxUsd)
        effectiveTaxRate ==
            IF QLt(Zero, grossGain) THEN QDiv(totalTaxUsd, grossGain) ELSE Zero
    IN  [grossGain |-> grossGain,
         totalTax |-> totalTaxUsd,
         netGain |-> netGain,
         effectiveTaxRate |-> effectiveTaxRate,
         breakdown |->
             [incomeTax |-> QDiv(incomeTaxIls, usd),
              nationalInsurance |-> QDiv(nationalInsuranceIls, usd),
              capitalGainsTax |-> QDiv(capitalGainsTaxIls, usd),
              surtax |-> QDiv(surtaxIls, usd),
              section102Applied |-> isEligibleForSection102]]

\* calculateOptionTax, lines 308-380: the options are in the money.
OptionTaxInTheMoney(g, sh, price, taxSettings, rate, date) ==
    LET usd == Frac(rate, ExchangeRateScale)
        grossGain == Frac(sh * (price - g.price), PriceScale)
        grossGainIls == QMul(grossGain, usd)
        isSection102 == g.isSection102 # "false"
        isEligibleForSection102 ==
            isSection102 /\ hasMetSection102HoldingPeriod(g, date)
        hasAnnualIncome ==
            ~taxSettings.annualIncome.null /\ taxSettings.annualIncome.value > 0
        \* lines 319-326: capital gains
        cgRate == IF taxSettings.isControllingShareholder
                  THEN CAPITAL_GAINS_RATE_CONTROLLING
                  ELSE CAPITAL_GAINS_RATE
        cgCapitalGainsTax == QMul(grossGainIls, Frac(cgRate, RateScale))
        cgSurtax == calculateSurtaxQ(Zero, grossGainIls).passiveSurtax
        \* lines 327-360: employment income
        ordIncomeTax ==
            IF taxSettings.useProgressiveTax
            THEN IF hasAnnualIncome
                 THEN calculateAdditionalProgressiveTaxQ(
                          Num(taxSettings.annualIncome.value), grossGainIls)
                 ELSE calculateProgressiveTaxQ(grossGainIls)
            ELSE IF ~taxSettings.marginalTaxRate.null
            THEN QMul(grossGainIls,
                      Frac(taxSettings.marginalTaxRate.value, RateScale))
            ELSE QMul(grossGainIls, Frac(FallbackRate, RateScale))
        ordNationalInsurance ==
            IF hasAnnualIncome
            THEN LET baseMonthlySalary ==
                         Frac(taxSettings.annualIncome.value, 12)
                     additionalMonthlyIncome == QDiv(grossGainIls, Num(12))
                 IN  QMul(calculateAdditionalNationalInsuranceQ(
                              baseMonthlySalary, additionalMonthlyIncome),
                          Num(12))
            ELSE LET monthlyAmount == QDiv(grossGainIls, Num(12))
                 IN  QMul(calculateNationalInsuranceMonthlyQ(monthlyAmount),
                          Num(12))
        \* "annualIncome || 0"
        currentAnnualIncome ==
            IF taxSettings.annualIncome.null
                  \/ taxSettings.annualIncome.value = 0
            THEN Zero
            ELSE Num(taxSettings.annualIncome.value)
        ordSurtax ==
            QSub(calculateSurtaxQ(QAdd(currentAnnualIncome, grossGainIls),
                                  Zero).laborSurtax,
                 calculateSurtaxQ(currentAnnualIncome, Zero).laborSurtax)
        incomeTaxIls == IF isEligibleForSection102 THEN Zero ELSE ordIncomeTax
        nationalInsuranceIls ==
            IF isEligibleForSection102 THEN Zero ELSE ordNationalInsurance
        capitalGainsTaxIls ==
            IF isEligibleForSection102 THEN cgCapitalGainsTax ELSE Zero
        surtaxIls == IF isEligibleForSection102 THEN cgSurtax ELSE ordSurtax
        totalTaxIls ==
            QAdd(QAdd(QAdd(incomeTaxIls, nationalInsuranceIls), capitalGainsTaxIls),
                 surtaxIls)
        totalTaxUsd == QDiv(totalTaxIls, usd)
        netGain == QSub(grossGain, totalTaxUsd)
        effectiveTaxRate ==
            IF QLt(Zero, grossGain) THEN QDiv(totalTaxUsd, grossGain) ELSE Zero
    IN  [grossGain |-> grossGain,
         totalTax |-> totalTaxUsd,
         netGain |-> netGain,
         effectiveTaxRate |-> effectiveTaxRate,
         breakdown |->
             [incomeTax |-> QDiv(incomeTaxIls, usd),
              nationalInsurance |-> QDiv(nationalInsuranceIls, usd),
              capitalGainsTax |-> QDiv(capitalGainsTaxIls, usd),
              surtax |-> QDiv(surtaxIls, usd),
              section102Applied |-> isEligibleForSection102]]

\* Bug variant: the check "currentPrice <= grant.price" is missing.
calculateOptionTax_NoGuard(g, sh, price, taxSettings, rate, date) ==
    OptionTaxInTheMoney(g, sh, price, taxSettings, rate, date)

\* calculateOptionTax: lines 283-380.
calculateOptionTax(g, sh, price, taxSettings, rate, date) ==
    IF price <= g.price
    THEN [grossGain |-> Zero,
          totalTax |-> Zero,
          netGain |-> Zero,
          effectiveTaxRate |-> Zero,
          breakdown |->
              [incomeTax |-> Zero,
               nationalInsurance |-> Zero,
               capitalGainsTax |-> Zero,
               surtax |-> Zero,
               section102Applied |-> FALSE]]
    ELSE OptionTaxInTheMoney(g, sh, price, taxSettings, rate, date)

\* Bug variant: every grant is calculated as options.
calculateTaxForGrant_AsOptions(g, sh, price, taxSettings, rate, date) ==
    calculateOptionTax(g, sh, price, taxSettings, rate, date)

\* calculateTaxForGrant: lines 385-398.
calculateTaxForGrant(g, sh, price, taxSettings, rate, date) ==
    IF g.type = "RSUs"
    THEN calculateRSUTax(g, sh, price, taxSettings, rate, date)
    ELSE calculateOptionTax(g, sh, price, taxSettings, rate, date)

-----------------------------------------------------------------------------
(* The holding-period checks of the ESPP call sites.  An optional date is  *)
(* the empty sequence (undefined) or the sequence of the date.             *)

\* Date.prototype.getTime, in hours.
getTime(d) == DayNumber(d) * 24 + d.hours

\* The 30 days of "1000 * 60 * 60 * 24 * 30", in hours.
ThirtyDays == 24 * 30

\* monthsDifference: calculations.ts lines 4-6.
monthsDifference(startDate, endDate) == differenceInMonths(endDate, startDate)

\* holdingPeriodMet of calculateESPPNetValue: calculations.ts lines 186-188.
esppNetValueHoldingPeriodMet(grantPurchaseDate, now) ==
    IF grantPurchaseDate # <<>>
    THEN monthsDifference(grantPurchaseDate[1], now) >= 24
    ELSE FALSE

\* holdingPeriodMet of the ESPP branch of Overview: Overview.tsx lines 134-139.
overviewESPPHoldingPeriodMet(grantPurchaseDate, grantVestingFrom, now) ==
    LET start == IF grantPurchaseDate # <<>> THEN grantPurchaseDate[1]
                 ELSE grantVestingFrom
        monthsHeld == (getTime(now) - getTime(start)) \div ThirtyDays
    IN  monthsHeld >= 24

\* holdingPeriodMet of the ESPP branch of ExerciseForm: ExerciseForm.tsx
\* lines 559-563.
exerciseFormESPPHoldingPeriodMet(grantPurchaseDate, grantVestingFrom, now) ==
    LET start == IF grantPurchaseDate # <<>> THEN grantPurchaseDate[1]
                 ELSE grantVestingFrom
        monthsHeld == (getTime(now) - getTime(start)) \div ThirtyDays
    IN  monthsHeld >= 24

-----------------------------------------------------------------------------
(* calculations.ts.  A grant is the record of the fields of Grant that the *)
(* functions read; an exercise is the record of id, grantId, grantAmount   *)
(* and amount of Exercise; the exercises are a sequence.  The text of the  *)
(* field note of calculateESPPTax is not modelled.                         *)

\* calculateVestedShares: lines 8-26.
calculateVestedShares(grantAmount, vestingStart, vestingYears, now, grantType) ==
    IF grantType = "ESPP"
    THEN (IF getTime(now) >= getTime(vestingStart)
          THEN Num(grantAmount) ELSE Zero)
    ELSE LET monthsVested == monthsDifference(vestingStart, now)
             quarterlyVested == monthsVested \div 3
             totalQuarters == vestingYears * 4
             vested == Frac(quarterlyVested * grantAmount, totalQuarters)
         IN  \* Math.min(grantAmount, vested)
             IF IsFinite(vested) THEN QMin(Num(grantAmount), vested)
             ELSE IF vested.n > 0 THEN Num(grantAmount)
             ELSE vested

\* calculateExercisedShares: lines 28-35.
RECURSIVE calculateExercisedShares(_, _)
calculateExercisedShares(grantAmount, exerciseList) ==
    IF exerciseList = <<>> THEN 0
    ELSE (IF Head(exerciseList).grantAmount = grantAmount
          THEN Head(exerciseList).amount ELSE 0)
            + calculateExercisedShares(grantAmount, Tail(exerciseList))

\* The rates of calculateESPPTax: the capital-gains rate of lines 114, 148
\* and 151, trusteeWithholdingRate of line 128 and the default of the
\* parameter marginalTaxRate of line 99.
ESPPCapitalGainsRate == 25
trusteeWithholdingRate == 62
DefaultESPPMarginalTaxRate == 47

\* calculateESPPTax: lines 92-165.  The prices and the number of shares are
\* fractions; withTrustee is "true", "false" or "undefined", and the default
\* of the parameter replaces "undefined".
calculateESPPTax(purchasePrice, fairMarketValueAtPurchase, salePrice, sh, withTrustee, holdingMet, taxRate) ==
    LET rate == Frac(taxRate, RateScale)
        discountBenefit ==
            QMul(QSub(fairMarketValueAtPurchase, purchasePrice), sh)
        capitalAppreciation ==
            QMul(QSub(salePrice, fairMarketValueAtPurchase), sh)
        cgRate == Frac(ESPPCapitalGainsRate, RateScale)
    IN  IF withTrustee # "true"
        THEN LET discountTax == QMul(discountBenefit, rate)
                 capitalGainsTax ==
                     QMax(Zero, QMul(capitalAppreciation, cgRate))
             IN  [discountTax |-> discountTax,
                  capitalGainsTax |-> capitalGainsTax,
                  totalTax |-> QAdd(discountTax, capitalGainsTax),
                  immediatelyTaxed |-> TRUE,
                  ordinaryIncomeAmount |-> discountBenefit,
                  capitalGainsAmount |-> capitalAppreciation]
        ELSE IF ~holdingMet
        THEN LET totalGain == QMul(QSub(salePrice, purchasePrice), sh)
             IN  [discountTax |-> QMul(discountBenefit, rate),
                  capitalGainsTax |->
                      QMax(Zero, QMul(capitalAppreciation, rate)),
                  totalTax |-> QMul(totalGain, rate),
                  trusteeTaxWithheld |->
                      QMul(totalGain, Frac(trusteeWithholdingRate, RateScale)),
                  immediatelyTaxed |-> FALSE,
                  ordinaryIncomeAmount |-> totalGain,
                  capitalGainsAmount |-> Zero]
        ELSE LET discountTax == QMul(discountBenefit, rate)
                 capitalGainsTax ==
                     QMax(Zero, QMul(capitalAppreciation, cgRate))
                 trusteeTaxWithheld ==
                     QAdd(QMul(discountBenefit,
                               Frac(trusteeWithholdingRate, RateScale)),
                          QMul(capitalAppreciation, cgRate))
             IN  [discountTax |-> discountTax,
                  capitalGainsTax |-> capitalGainsTax,
                  totalTax |-> QAdd(discountTax, capitalGainsTax),
                  trusteeTaxWithheld |-> trusteeTaxWithheld,
                  immediatelyTaxed |-> FALSE,
                  ordinaryIncomeAmount |-> discountBenefit,
                  capitalGainsAmount |-> capitalAppreciation]

\* The default of the discount of an ESPP grant, in percent: line 183.
DefaultESPPDiscount == 15

\* fairMarketValueAtPurchase of calculateESPPNetValue: lines 183-184.  The
\* discount of the grant is a nullable whole percentage.
esppFairMarketValue(g) ==
    LET discount == IF g.esppDiscount.null \/ g.esppDiscount.value = 0
                    THEN DefaultESPPDiscount
                    ELSE g.esppDiscount.value
    IN  QDiv(Frac(g.price, PriceScale), Frac(100 - discount, 100))

\* calculateESPPNetValue: lines 168-202.
calculateESPPNetValue(g, price, exerciseList, taxRate, now) ==
    IF g.type # "ESPP" THEN Zero
    ELSE LET vested == calculateVestedShares(g.amount, g.vestingFrom,
                                             g.vestingYears, now, g.type)
             exercised == calculateExercisedShares(g.amount, exerciseList)
             availableShares == QSub(vested, Num(exercised))
         IN  IF QLe(availableShares, Zero) THEN Zero
             ELSE LET holdingMet ==
                          esppNetValueHoldingPeriodMet(g.purchaseDate, now)
                      taxOfSale ==
                          calculateESPPTax(Frac(g.price, PriceScale),
                                           esppFairMarketValue(g),
                                           Frac(price, PriceScale),
                                           availableShares,
                                           g.isSection102, holdingMet,
                                           taxRate)
                      grossValue ==
                          QMul(availableShares,
                               Frac(price - g.price, PriceScale))
                  IN  QSub(grossValue, taxOfSale.totalTax)

-----------------------------------------------------------------------------
(* The tax settings: useTaxSettingsStore and TaxSettings.tsx.              *)

\* The value of the store as the TaxSettings argument of the calculations.
StoreSettings ==
    [marginalTaxRate |-> marginalTaxRate,
     annualIncome |-> annualIncome,
     useProgressiveTax |-> useProgressiveTax,
     isControllingShareholder |-> isControllingShareholder]

\* getCurrentMethod: TaxSettings.tsx lines 52-56.
getCurrentMethod ==
    IF ~annualIncome.null /\ annualIncome.value > 0 THEN "income"
    ELSE IF ~marginalTaxRate.null /\ ~useProgressiveTax THEN "marginal"
    ELSE "progressive"

\* The default annual income and marginal rate of handleTaxMethodChange.
DefaultAnnualIncome == 300000
DefaultMarginalTaxRate == 47

-----------------------------------------------------------------------------
(* Arguments of the scenarios.                                             *)

MaxDelta == 1
IncomeStep == 60000
MaxSteps == 14
AddStep == 300000
MaxAddSteps == 3
MonthlyStep == 9000
MaxMonthlySteps == 8
SurtaxStep == 200000
MaxSurtaxSteps == 5
FirstGrantYear == 2022
MaxGrantYears == 2
MaxMonthDelta == 1
MaxDayDelta == 1

Boundaries == { TAX_BRACKETS[i].min : i \in 1..Len(TAX_BRACKETS) }

Widths == { TAX_BRACKETS[i].max - TAX_BRACKETS[i].min :
               i \in 1..(Len(TAX_BRACKETS) - 1) }

BaseIncomes ==
    { b + d : b \in Boundaries, d \in (0 - MaxDelta)..MaxDelta }
        \cup { k * IncomeStep : k \in 0..MaxSteps }

AdditionalIncomes ==
    {0, 1} \cup Widths \cup { k * AddStep : k \in 1..MaxAddSteps }

NIBoundaries ==
    { NATIONAL_INSURANCE_BRACKETS[i].min :
         i \in 1..Len(NATIONAL_INSURANCE_BRACKETS) }

MonthlyIncomes ==
    { b + d : b \in NIBoundaries, d \in (0 - MaxDelta)..MaxDelta }
        \cup { k * MonthlyStep : k \in 0..MaxMonthlySteps }

AdditionalMonthlyIncomes ==
    {0, 1} \cup { k * MonthlyStep : k \in 1..MaxMonthlySteps }

SurtaxIncomes ==
    { SURTAX_THRESHOLD + d : d \in (0 - MaxDelta)..MaxDelta }
        \cup { k * SurtaxStep : k \in 0..MaxSurtaxSteps }
        \cup {800000}

\* Grant dates: the first, the middle and the last days of January,
\* February, March, April and December, at midnight or in the afternoon.
GrantDays == {1, 15, 28, 29, 30, 31}

GrantDates ==
    { dt \in [year : FirstGrantYear..(FirstGrantYear + MaxGrantYears),
              month : {0, 1, 2, 3, 11},
              date : GrantDays,
              hours : {0, 14}] :
         dt.date <= getDaysInMonth(dt.year, dt.month) }

Grants ==
    [grantDate : GrantDates, isSection102 : {"true", "false", "undefined"}]

\* As-of dates of a grant: around the grant date and around the end of the
\* holding period, at midnight or in the afternoon.
CurrentDates(g) ==
    { [addDays(addMonths(g.grantDate, k), j) EXCEPT !.hours = h] :
         k \in {0} \cup ((SECTION_102_HOLDING_PERIOD_MONTHS - MaxMonthDelta)
                         ..(SECTION_102_HOLDING_PERIOD_MONTHS + MaxMonthDelta)),
         j \in (0 - MaxDayDelta)..MaxDayDelta,
         h \in {0, 14} }

\* The module is loaded: its two arrays hold the tables.
TablesLoaded ==
    /\ taxBrackets = TAX_BRACKETS
    /\ nationalInsuranceBrackets = NATIONAL_INSURANCE_BRACKETS

\* The variables of a family of functions that a scenario does not call.
TaxIdle ==
    /\ baseIncome = 0
    /\ additionalIncome = 0
    /\ additionalIncome2 = 0
    /\ progressiveTax = NotCalled
    /\ additionalTax = NotCalled
    /\ marginalRate = NotCalled

NIIdle ==
    /\ baseMonthlySalaryIls = 0
    /\ additionalMonthlyIncomeIls = 0
    /\ nationalInsurance = NotCalled
    /\ additionalNI = NotCalled

SurtaxIdle ==
    /\ annualLaborIncomeIls = 0
    /\ annualPassiveIncomeIls = 0
    /\ surtax = NotCalled

S102Idle ==
    /\ grant = [grantDate |-> MakeDate(FirstGrantYear, 0, 1, 0),
                isSection102 |-> "undefined"]
    /\ currentDate = MakeDate(FirstGrantYear, 0, 1, 0)
    /\ holdingPeriodMet = NotCalled
    /\ section102Status = NotCalled
    /\ monthsUntilEligible = NotCalled

SitesIdle ==
    /\ daysUntilEligible = NotCalled
    /\ purchaseDate = <<>>
    /\ vestingFrom = MakeDate(FirstGrantYear, 0, 1, 0)
    /\ esppHoldingPeriodMet = NotCalled
    /\ overviewHoldingPeriodMet = NotCalled
    /\ exerciseFormHoldingPeriodMet = NotCalled

\* The defaults of useTaxSettingsStore.
SettingsDefaults ==
    /\ marginalTaxRate = Null
    /\ annualIncome = Null
    /\ useProgressiveTax = TRUE
    /\ isControllingShareholder = FALSE

GrantTaxIdle ==
    /\ taxGrant = [type |-> "RSUs", price |-> 0,
                   grantDate |-> MakeDate(FirstGrantYear, 0, 1, 0),
                   isSection102 |-> "undefined",
                   section102Track |-> "undefined"]
    /\ shares = 0
    /\ currentPrice = 0
    /\ usdToIls = 365
    /\ exerciseDate = MakeDate(FirstGrantYear, 0, 1, 0)
    /\ taxResult = NotCalled

\* No computation has been called a second time.
Computations ==
    {"calculateProgressiveTax", "calculateSurtax", "getSection102Status",
     "calculateTaxForGrant"}

RepeatIdle == repeated = [c \in Computations |-> NotCalled]

ESPPIdle ==
    /\ esppGrant = [type |-> "ESPP", amount |-> 0, price |-> 0,
                    vestingFrom |-> MakeDate(FirstGrantYear, 0, 1, 0),
                    vestingYears |-> 1,
                    purchaseDate |-> <<>>,
                    isSection102 |-> "undefined",
                    esppDiscount |-> Null]
    /\ esppSalePrice = 0
    /\ esppTaxRate = DefaultESPPMarginalTaxRate
    /\ esppNow = MakeDate(FirstGrantYear, 0, 1, 0)
    /\ esppTax = NotCalled
    /\ esppNetValue = NotCalled

VestingIdle ==
    /\ vestingGrant = [amount |-> 0,
                       vestingFrom |-> MakeDate(FirstGrantYear, 0, 1, 0),
                       vestingYears |-> 1,
                       type |-> "RSUs"]
    /\ vestingDate = MakeDate(FirstGrantYear, 0, 1, 0)
    /\ vestingLaterDate = MakeDate(FirstGrantYear, 0, 1, 0)
    /\ vestedShares = NotCalled

\* The defaults of useGrantsStore and of useExercisesStore.
StoresEmpty ==
    /\ grants = <<>>
    /\ exercises = <<>>

OthersIdle == RepeatIdle /\ ESPPIdle /\ VestingIdle /\ StoresEmpty

-----------------------------------------------------------------------------
(* Scenario of the income-tax functions.                                   *)

Init ==
    /\ TablesLoaded
    /\ OthersIdle
    /\ SitesIdle
    /\ SettingsDefaults
    /\ GrantTaxIdle
    /\ baseIncome \in BaseIncomes
    /\ additionalIncome \in AdditionalIncomes
    /\ additionalIncome2 \in AdditionalIncomes
    /\ progressiveTax = NotCalled
    /\ additionalTax = NotCalled
    /\ marginalRate = NotCalled
    /\ NIIdle
    /\ SurtaxIdle
    /\ S102Idle

\* Bug variant: the walk removes the first row of the table
\* (TAX_BRACKETS.shift()) after it has computed the results.
CallProgressiveTax_ConsumesTable ==
    /\ ~progressiveTax.called
    /\ progressiveTax' =
         [called |-> TRUE,
          base |-> calculateProgressiveTax(baseIncome),
          mid  |-> calculateProgressiveTax(baseIncome + additionalIncome),
          top  |-> calculateProgressiveTax(baseIncome + additionalIncome
                                              + additionalIncome2)]
    /\ taxBrackets' = Tail(taxBrackets)
    /\ UNCHANGED <<nationalInsuranceBrackets, otherVars, siteVars,
                   settingsVars, grantTaxVars,
                   baseIncome, additionalIncome, additionalIncome2,
                   additionalTax, marginalRate, niVars, surtaxVars, s102Vars>>

\* calculateProgressiveTax on the three income levels of the scenario.
CallProgressiveTax ==
    /\ ~progressiveTax.called
    /\ progressiveTax' =
         [called |-> TRUE,
          base |-> calculateProgressiveTax(baseIncome),
          mid  |-> calculateProgressiveTax(baseIncome + additionalIncome),
          top  |-> calculateProgressiveTax(baseIncome + additionalIncome
                                              + additionalIncome2)]
    /\ UNCHANGED <<tableVars, otherVars, siteVars, settingsVars, grantTaxVars,
                   baseIncome, additionalIncome, additionalIncome2,
                   additionalTax, marginalRate, niVars, surtaxVars, s102Vars>>

\* calculateAdditionalProgressiveTax on the two parts and on their sum.
CallAdditionalProgressiveTax ==
    /\ ~additionalTax.called
    /\ additionalTax' =
         [called |-> TRUE,
          first  |-> calculateAdditionalProgressiveTax(baseIncome,
                                                       additionalIncome),
          second |-> calculateAdditionalProgressiveTax(
                         baseIncome + additionalIncome, additionalIncome2),
          both   |-> calculateAdditionalProgressiveTax(
                         baseIncome, additionalIncome + additionalIncome2)]
    /\ UNCHANGED <<tableVars, otherVars, siteVars, settingsVars, grantTaxVars,
                   baseIncome, additionalIncome, additionalIncome2,
                   progressiveTax, marginalRate, niVars, surtaxVars, s102Vars>>

\* getMarginalTaxRate on the base income.
CallMarginalTaxRate ==
    /\ ~marginalRate.called
    /\ marginalRate' = [called |-> TRUE, rate |-> getMarginalTaxRate(baseIncome)]
    /\ UNCHANGED <<tableVars, otherVars, siteVars, settingsVars, grantTaxVars,
                   baseIncome, additionalIncome, additionalIncome2,
                   progressiveTax, additionalTax, niVars, surtaxVars, s102Vars>>

Next ==
    \/ CallProgressiveTax
    \/ CallAdditionalProgressiveTax
    \/ CallMarginalTaxRate

Spec == Init /\ [][Next]_vars

-----------------------------------------------------------------------------
(* Scenario of the national-insurance functions.                           *)

InitNI ==
    /\ TablesLoaded
    /\ OthersIdle
    /\ SitesIdle
    /\ SettingsDefaults
    /\ GrantTaxIdle
    /\ TaxIdle
    /\ baseMonthlySalaryIls \in MonthlyIncomes
    /\ additionalMonthlyIncomeIls \in AdditionalMonthlyIncomes
    /\ nationalInsurance = NotCalled
    /\ additionalNI = NotCalled
    /\ SurtaxIdle
    /\ S102Idle

\* calculateNationalInsuranceMonthly on the salary, on the salary with the
\* additional income, and on the income of the cap.
CallNationalInsuranceMonthly ==
    /\ ~nationalInsurance.called
    /\ nationalInsurance' =
         [called |-> TRUE,
          base  |-> calculateNationalInsuranceMonthly(baseMonthlySalaryIls),
          total |-> calculateNationalInsuranceMonthly(
                        baseMonthlySalaryIls + additionalMonthlyIncomeIls),
          cap   |-> calculateNationalInsuranceMonthly(NI_CAP)]
    /\ UNCHANGED <<tableVars, otherVars, siteVars, settingsVars, grantTaxVars,
                   taxVars, baseMonthlySalaryIls, additionalMonthlyIncomeIls,
                   additionalNI, surtaxVars, s102Vars>>

CallAdditionalNationalInsurance ==
    /\ ~additionalNI.called
    /\ additionalNI' =
         [called |-> TRUE,
          tax |-> calculateAdditionalNationalInsurance(
                      baseMonthlySalaryIls, additionalMonthlyIncomeIls)]
    /\ UNCHANGED <<tableVars, otherVars, siteVars, settingsVars, grantTaxVars,
                   taxVars, baseMonthlySalaryIls, additionalMonthlyIncomeIls,
                   nationalInsurance, surtaxVars, s102Vars>>

NextNI ==
    \/ CallNationalInsuranceMonthly
    \/ CallAdditionalNationalInsurance

SpecNI == InitNI /\ [][NextNI]_vars

-----------------------------------------------------------------------------
(* Scenario of the surtax function.                                        *)

InitSurtax ==
    /\ TablesLoaded
    /\ OthersIdle
    /\ SitesIdle
    /\ SettingsDefaults
    /\ GrantTaxIdle
    /\ TaxIdle
    /\ NIIdle
    /\ annualLaborIncomeIls \in SurtaxIncomes
    /\ annualPassiveIncomeIls \in SurtaxIncomes
    /\ surtax = NotCalled
    /\ S102Idle

CallSurtax ==
    /\ ~surtax.called
    /\ surtax' = [called |-> TRUE,
                  result |-> calculateSurtax(annualLaborIncomeIls,
                                             annualPassiveIncomeIls)]
    /\ UNCHANGED <<tableVars, otherVars, siteVars, settingsVars, grantTaxVars,
                   taxVars, niVars, annualLaborIncomeIls,
                   annualPassiveIncomeIls, s102Vars>>

NextSurtax == CallSurtax

SpecSurtax == InitSurtax /\ [][NextSurtax]_vars

-----------------------------------------------------------------------------
(* Scenario of the holding-period functions of section102.ts.              *)

InitS102 ==
    /\ TablesLoaded
    /\ OthersIdle
    /\ SitesIdle
    /\ SettingsDefaults
    /\ GrantTaxIdle
    /\ TaxIdle
    /\ NIIdle
    /\ SurtaxIdle
    /\ grant \in Grants
    /\ currentDate \in CurrentDates(grant)
    /\ holdingPeriodMet = NotCalled
    /\ section102Status = NotCalled
    /\ monthsUntilEligible = NotCalled

CallHasMetSection102HoldingPeriod ==
    /\ ~holdingPeriodMet.called
    /\ holdingPeriodMet' =
         [called |-> TRUE,
          met |-> hasMetSection102HoldingPeriod(grant, currentDate)]
    /\ UNCHANGED <<tableVars, otherVars, siteVars, settingsVars, grantTaxVars,
                   taxVars, niVars, surtaxVars, grant, currentDate,
                   section102Status, monthsUntilEligible>>

CallGetSection102Status ==
    /\ ~section102Status.called
    /\ section102Status' =
         [called |-> TRUE,
          result |-> getSection102Status(grant, currentDate)]
    /\ UNCHANGED <<tableVars, otherVars, siteVars, settingsVars, grantTaxVars,
                   taxVars, niVars, surtaxVars, grant, currentDate,
                   holdingPeriodMet, monthsUntilEligible>>

CallGetMonthsUntilSection102Eligible ==
    /\ ~monthsUntilEligible.called
    /\ monthsUntilEligible' =
         [called |-> TRUE,
          months |-> getMonthsUntilSection102Eligible(grant, currentDate)]
    /\ UNCHANGED <<tableVars, otherVars, siteVars, settingsVars, grantTaxVars,
                   taxVars, niVars, surtaxVars, grant, currentDate,
                   holdingPeriodMet, section102Status>>

NextS102 ==
    \/ CallHasMetSection102HoldingPeriod
    \/ CallGetSection102Status
    \/ CallGetMonthsUntilSection102Eligible

SpecS102 == InitS102 /\ [][NextS102]_vars

-----------------------------------------------------------------------------
(* Scenario of the call sites that decide the 24-month holding period.     *)

\* The grants of the last year of grant dates (a leap year).
SiteGrants ==
    { g \in Grants : g.grantDate.year = FirstGrantYear + MaxGrantYears }

\* As-of dates: those of CurrentDates, and the days around 24 x 30 days
\* after the start.
SiteDates(g) ==
    CurrentDates(g) \cup
    { [addDays(g.grantDate, 24 * 30 + j) EXCEPT !.hours = h] :
         j \in (0 - MaxDayDelta)..MaxDayDelta, h \in {0, 14} }

InitSites ==
    /\ TablesLoaded
    /\ OthersIdle
    /\ TaxIdle
    /\ NIIdle
    /\ SurtaxIdle
    /\ SettingsDefaults
    /\ GrantTaxIdle
    /\ grant \in SiteGrants
    /\ currentDate \in SiteDates(grant)
    /\ holdingPeriodMet = NotCalled
    /\ section102Status = NotCalled
    /\ monthsUntilEligible = NotCalled
    /\ daysUntilEligible = NotCalled
    /\ purchaseDate \in {<<>>, <<grant.grantDate>>}
    /\ vestingFrom = grant.grantDate
    /\ esppHoldingPeriodMet = NotCalled
    /\ overviewHoldingPeriodMet = NotCalled
    /\ exerciseFormHoldingPeriodMet = NotCalled

CallGetDaysUntilSection102Eligible ==
    /\ ~daysUntilEligible.called
    /\ daysUntilEligible' =
         [called |-> TRUE,
          days |-> getDaysUntilSection102Eligible(grant, currentDate)]
    /\ UNCHANGED <<tableVars, otherVars, taxVars, niVars, surtaxVars, s102Vars,
                   purchaseDate, vestingFrom, esppHoldingPeriodMet,
                   overviewHoldingPeriodMet, exerciseFormHoldingPeriodMet,
                   settingsVars, grantTaxVars>>

\* calculateESPPNetValue decides the holding period of the grant.
CallESPPNetValueHoldingPeriod ==
    /\ ~esppHoldingPeriodMet.called
    /\ esppHoldingPeriodMet' =
         [called |-> TRUE,
          met |-> esppNetValueHoldingPeriodMet(purchaseDate, currentDate)]
    /\ UNCHANGED <<tableVars, otherVars, taxVars, niVars, surtaxVars, s102Vars,
                   daysUntilEligible, purchaseDate, vestingFrom,
                   overviewHoldingPeriodMet, exerciseFormHoldingPeriodMet,
                   settingsVars, grantTaxVars>>

\* Overview decides the holding period of the grant.
CallOverviewESPPHoldingPeriod ==
    /\ ~overviewHoldingPeriodMet.called
    /\ overviewHoldingPeriodMet' =
         [called |-> TRUE,
          met |-> overviewESPPHoldingPeriodMet(purchaseDate, vestingFrom,
                                               currentDate)]
    /\ UNCHANGED <<tableVars, otherVars, taxVars, niVars, surtaxVars, s102Vars,
                   daysUntilEligible, purchaseDate, vestingFrom,
                   esppHoldingPeriodMet, exerciseFormHoldingPeriodMet,
                   settingsVars, grantTaxVars>>

\* ExerciseForm decides the holding period of the grant.
CallExerciseFormESPPHoldingPeriod ==
    /\ ~exerciseFormHoldingPeriodMet.called
    /\ exerciseFormHoldingPeriodMet' =
         [called |-> TRUE,
          met |-> exerciseFormESPPHoldingPeriodMet(purchaseDate, vestingFrom,
                                                   currentDate)]
    /\ UNCHANGED <<tableVars, otherVars, taxVars, niVars, surtaxVars, s102Vars,
                   daysUntilEligible, purchaseDate, vestingFrom,
                   esppHoldingPeriodMet, overviewHoldingPeriodMet,
                   settingsVars, grantTaxVars>>

NextSites ==
    \/ CallHasMetSection102HoldingPeriod
    \/ CallGetDaysUntilSection102Eligible
    \/ CallESPPNetValueHoldingPeriod
    \/ CallOverviewESPPHoldingPeriod
    \/ CallExerciseFormESPPHoldingPeriod

SpecSites == InitSites /\ [][NextSites]_vars

-----------------------------------------------------------------------------
(* Scenario of the grant calculations.                                     *)

GrantTypes == {"RSUs", "Options", "ESPP"}

Section102Tracks == {"capital-gains", "ordinary-income", "undefined"}

\* Shares and prices (in cents): the two scenarios of the specification of
\* the engine (1000 RSUs of 15.50 at 22.00, 500 options of 12.25 at 20.00),
\* a lot whose gain is above the surtax threshold, a price below and a price
\* equal to the price of the grant, and no or a negative number of shares.
Quantities ==
    { [shares |-> 1000,    price |-> 1550, currentPrice |-> 2200],
      [shares |-> 500,     price |-> 1225, currentPrice |-> 2000],
      [shares |-> 30000,   price |-> 1225, currentPrice |-> 2200],
      [shares |-> 1000,    price |-> 2200, currentPrice |-> 1550],
      [shares |-> 500,     price |-> 2000, currentPrice |-> 2000],
      [shares |-> 0,       price |-> 1550, currentPrice |-> 2200],
      [shares |-> 0 - 100, price |-> 1550, currentPrice |-> 2200],
      [shares |-> 0 - 100, price |-> 2200, currentPrice |-> 1550] }

GrantPrices == { q.price : q \in Quantities }

\* Exchange rates in hundredths: 3.65 (the default) and 4.00.
ExchangeRates == {365, 400}

TaxGrantDate == MakeDate(FirstGrantYear, 0, 15, 0)

TaxGrants ==
    [type : GrantTypes,
     price : GrantPrices,
     grantDate : {TaxGrantDate},
     isSection102 : {"true", "false", "undefined"},
     section102Track : Section102Tracks]

\* The day the holding period ends, and the days before it.
ExerciseDates(g) ==
    { addDays(addMonths(g.grantDate, SECTION_102_HOLDING_PERIOD_MONTHS),
              0 - j) : j \in 0..MaxDayDelta }

MarginalTaxRates == {Null, Value(31), Value(47)}

AnnualIncomes == {Null, Value(0), Value(300000), Value(900000)}

\* The call reads the settings of the store.
CallCalculateTaxForGrant ==
    /\ taxResult' =
         [called |-> TRUE,
          settings |-> StoreSettings,
          result |-> calculateTaxForGrant(taxGrant, shares, currentPrice,
                                          StoreSettings, usdToIls,
                                          exerciseDate)]
    /\ UNCHANGED <<tableVars, otherVars, taxVars, niVars, surtaxVars,
                   s102Vars, siteVars, settingsVars, taxGrant, shares,
                   currentPrice, usdToIls, exerciseDate>>

InitGrantTax ==
    /\ TablesLoaded
    /\ OthersIdle
    /\ TaxIdle
    /\ NIIdle
    /\ SurtaxIdle
    /\ S102Idle
    /\ SitesIdle
    /\ marginalTaxRate \in MarginalTaxRates
    /\ annualIncome \in AnnualIncomes
    /\ useProgressiveTax \in BOOLEAN
    /\ isControllingShareholder \in BOOLEAN
    /\ \E q \in Quantities :
          /\ taxGrant \in { g \in TaxGrants : g.price = q.price }
          /\ shares = q.shares
          /\ currentPrice = q.currentPrice
    /\ usdToIls \in ExchangeRates
    /\ exerciseDate \in ExerciseDates(taxGrant)
    /\ taxResult = NotCalled

NextGrantTax == CallCalculateTaxForGrant

SpecGrantTax == InitGrantTax /\ [][NextGrantTax]_vars

\* Scenario of the ratios: the calculations of RSU grants and of options
\* with an exchange rate of 0 and with the default rate.
RatioExchangeRates == {0, 365}

InitRatios ==
    /\ TablesLoaded
    /\ OthersIdle
    /\ TaxIdle
    /\ NIIdle
    /\ SurtaxIdle
    /\ S102Idle
    /\ SitesIdle
    /\ marginalTaxRate \in MarginalTaxRates
    /\ annualIncome \in AnnualIncomes
    /\ useProgressiveTax \in BOOLEAN
    /\ isControllingShareholder \in BOOLEAN
    /\ \E q \in Quantities :
          /\ taxGrant \in { g \in TaxGrants : /\ g.price = q.price
                                              /\ g.type # "ESPP" }
          /\ shares = q.shares
          /\ currentPrice = q.currentPrice
    /\ usdToIls \in RatioExchangeRates
    /\ exerciseDate \in ExerciseDates(taxGrant)
    /\ taxResult = NotCalled

SpecRatios == InitRatios /\ [][NextGrantTax]_vars

-----------------------------------------------------------------------------
(* Scenario of the tax settings: the handlers of TaxSettings.tsx on the    *)
(* store, and calculations that read the store.                            *)

TaxMethods == {"progressive", "marginal", "income"}

\* The rates of the select of the marginal method.
BracketRates == { TAX_BRACKETS[i].rate : i \in 1..Len(TAX_BRACKETS) }

\* The numbers typed into the input of the annual income.
MaxIncomeSteps == 3
TypedIncomes == { k * DefaultAnnualIncome : k \in 0..MaxIncomeSteps }

InitSettings ==
    /\ TablesLoaded
    /\ OthersIdle
    /\ TaxIdle
    /\ NIIdle
    /\ SurtaxIdle
    /\ S102Idle
    /\ SitesIdle
    /\ SettingsDefaults
    /\ taxGrant \in { g \in TaxGrants :
                         /\ g.type \in {"RSUs", "Options"}
                         /\ g.price = 1225
                         /\ g.isSection102 = "true"
                         /\ g.section102Track = "capital-gains" }
    /\ shares = 1000
    /\ currentPrice = 2200
    /\ usdToIls = 365
    /\ exerciseDate \in ExerciseDates(taxGrant)
    /\ taxResult = NotCalled

\* handleTaxMethodChange: TaxSettings.tsx lines 33-50; the radio of a method
\* changes when it is not the checked one.
HandleTaxMethodChange(method) ==
    /\ getCurrentMethod # method
    /\ IF method = "progressive"
       THEN /\ useProgressiveTax' = TRUE
            /\ marginalTaxRate' = Null
            /\ annualIncome' = Null
       ELSE IF method = "marginal"
       THEN /\ useProgressiveTax' = FALSE
            /\ marginalTaxRate' =
                 IF marginalTaxRate.null THEN Value(DefaultMarginalTaxRate)
                 ELSE marginalTaxRate
            /\ annualIncome' = annualIncome
       ELSE /\ useProgressiveTax' = TRUE
            /\ marginalTaxRate' = Null
            /\ annualIncome' =
                 IF annualIncome.null THEN Value(DefaultAnnualIncome)
                 ELSE annualIncome
    /\ UNCHANGED <<tableVars, otherVars, taxVars, niVars, surtaxVars, s102Vars, siteVars,
                   isControllingShareholder, grantTaxVars>>

\* The input of the annual income (line 128), shown with the income method:
\* a number, or null when the input is emptied.
ChangeAnnualIncome(income) ==
    /\ getCurrentMethod = "income"
    /\ annualIncome' = income
    /\ UNCHANGED <<tableVars, otherVars, taxVars, niVars, surtaxVars, s102Vars, siteVars,
                   marginalTaxRate, useProgressiveTax,
                   isControllingShareholder, grantTaxVars>>

\* The select of the tax bracket (line 168), shown with the marginal method.
ChangeMarginalTaxRate(rate) ==
    /\ getCurrentMethod = "marginal"
    /\ marginalTaxRate' = Value(rate)
    /\ UNCHANGED <<tableVars, otherVars, taxVars, niVars, surtaxVars, s102Vars, siteVars,
                   annualIncome, useProgressiveTax,
                   isControllingShareholder, grantTaxVars>>

\* The checkbox of the controlling shareholder (line 200).
ChangeIsControllingShareholder ==
    /\ isControllingShareholder' = ~isControllingShareholder
    /\ UNCHANGED <<tableVars, otherVars, taxVars, niVars, surtaxVars, s102Vars, siteVars,
                   marginalTaxRate, annualIncome, useProgressiveTax,
                   grantTaxVars>>

NextSettings ==
    \/ \E method \in TaxMethods : HandleTaxMethodChange(method)
    \/ \E income \in {Null} \cup { Value(v) : v \in TypedIncomes } :
          ChangeAnnualIncome(income)
    \/ \E rate \in BracketRates : ChangeMarginalTaxRate(rate)
    \/ ChangeIsControllingShareholder
    \/ CallCalculateTaxForGrant

SpecSettings == InitSettings /\ [][NextSettings]_vars

-----------------------------------------------------------------------------
(* Scenario of the engine: the four computations are called in any order,  *)
(* each a first and a second time with the same arguments.                 *)

EngineIncomes == {0, 100000, 800000}

EngineGrantDate == MakeDate(FirstGrantYear, 0, 31, 14)

EngineDates ==
    { addDays(addMonths(EngineGrantDate, SECTION_102_HOLDING_PERIOD_MONTHS),
              0 - j) : j \in 0..1 }

InitEngine ==
    /\ TablesLoaded
    /\ RepeatIdle
    /\ ESPPIdle
    /\ VestingIdle
    /\ StoresEmpty
    /\ SitesIdle
    /\ NIIdle
    /\ baseIncome \in EngineIncomes
    /\ additionalIncome = 50000
    /\ additionalIncome2 = 50000
    /\ progressiveTax = NotCalled
    /\ additionalTax = NotCalled
    /\ marginalRate = NotCalled
    /\ annualLaborIncomeIls \in EngineIncomes
    /\ annualPassiveIncomeIls = 100000
    /\ surtax = NotCalled
    /\ grant = [grantDate |-> EngineGrantDate, isSection102 |-> "true"]
    /\ currentDate \in EngineDates
    /\ holdingPeriodMet = NotCalled
    /\ section102Status = NotCalled
    /\ monthsUntilEligible = NotCalled
    /\ marginalTaxRate = Null
    /\ annualIncome \in {Null, Value(DefaultAnnualIncome)}
    /\ useProgressiveTax = TRUE
    /\ isControllingShareholder = FALSE
    /\ taxGrant = [type |-> "RSUs", price |-> 1550,
                   grantDate |-> EngineGrantDate,
                   isSection102 |-> "true",
                   section102Track |-> "capital-gains"]
    /\ shares = 1000
    /\ currentPrice = 2200
    /\ usdToIls = 365
    /\ exerciseDate \in EngineDates
    /\ taxResult = NotCalled

\* The second calls of calculateProgressiveTax, calculateSurtax and
\* getSection102Status: the same computation on the same arguments.
RepeatProgressiveTax ==
    /\ progressiveTax.called
    /\ repeated' =
         [repeated EXCEPT !["calculateProgressiveTax"] =
            [called |-> TRUE,
             base |-> calculateProgressiveTax(baseIncome),
             mid  |-> calculateProgressiveTax(baseIncome + additionalIncome),
             top  |-> calculateProgressiveTax(baseIncome + additionalIncome
                                                 + additionalIncome2)]]
    /\ UNCHANGED <<tableVars, firstVars, esppVars, vestingVars, storeVars>>

RepeatSurtax ==
    /\ surtax.called
    /\ repeated' =
         [repeated EXCEPT !["calculateSurtax"] =
            [called |-> TRUE,
             result |-> calculateSurtax(annualLaborIncomeIls,
                                        annualPassiveIncomeIls)]]
    /\ UNCHANGED <<tableVars, firstVars, esppVars, vestingVars, storeVars>>

RepeatGetSection102Status ==
    /\ section102Status.called
    /\ repeated' =
         [repeated EXCEPT !["getSection102Status"] =
            [called |-> TRUE,
             result |-> getSection102Status(grant, currentDate)]]
    /\ UNCHANGED <<tableVars, firstVars, esppVars, vestingVars, storeVars>>

\* calculateTaxForGrant, called any number of times on the same arguments:
\* the result of the call before, when there is one, is kept in repeated.
RepeatCalculateTaxForGrant ==
    /\ taxResult' =
         [called |-> TRUE,
          settings |-> StoreSettings,
          result |-> calculateTaxForGrant(taxGrant, shares, currentPrice,
                                          StoreSettings, usdToIls,
                                          exerciseDate)]
    /\ repeated' = IF taxResult.called
                   THEN [repeated EXCEPT !["calculateTaxForGrant"] = taxResult]
                   ELSE repeated
    /\ UNCHANGED <<tableVars, esppVars, vestingVars, storeVars, taxVars,
                   niVars, surtaxVars, s102Vars, siteVars, settingsVars,
                   taxGrant, shares, currentPrice, usdToIls, exerciseDate>>

NextEngine ==
    \/ CallProgressiveTax
    \/ CallSurtax
    \/ CallGetSection102Status
    \/ RepeatProgressiveTax
    \/ RepeatSurtax
    \/ RepeatGetSection102Status
    \/ RepeatCalculateTaxForGrant

SpecEngine == InitEngine /\ [][NextEngine]_vars

-----------------------------------------------------------------------------
(* Scenario of the ESPP calculations of calculations.ts.                   *)

ESPPPurchaseDate == MakeDate(FirstGrantYear, 0, 15, 0)

\* ESPP grants of 100 shares bought at 8.50: the fair-market value is 10.00
\* with the default discount of 15%.
ESPPGrants ==
    [type : {"ESPP"},
     amount : {100},
     price : {850},
     vestingFrom : {ESPPPurchaseDate},
     vestingYears : {1},
     purchaseDate : {<<>>, <<ESPPPurchaseDate>>},
     isSection102 : {"true", "false", "undefined"},
     esppDiscount : {Null, Value(10)}]

\* Sale prices in cents: below the purchase price, between it and the
\* fair-market value, the fair-market value of the default discount, above.
ESPPSalePrices == {800, 900, 1000, 1500}

ESPPTaxRates == {31, 47, 62}

\* The day before the purchase, and the days up to the end of 24 months.
ESPPDates ==
    {addDays(ESPPPurchaseDate, 0 - 1)} \cup
    { addDays(addMonths(ESPPPurchaseDate, 24), 0 - j) : j \in 0..MaxDayDelta }

\* No exercise, or one exercise of 40 shares of a grant of 100.
ESPPExercises ==
    { <<>>, << [id |-> 1, grantId |-> 1, grantAmount |-> 100,
                amount |-> 40] >> }

InitESPP ==
    /\ TablesLoaded
    /\ TaxIdle
    /\ NIIdle
    /\ SurtaxIdle
    /\ S102Idle
    /\ SitesIdle
    /\ SettingsDefaults
    /\ GrantTaxIdle
    /\ RepeatIdle
    /\ VestingIdle
    /\ esppGrant \in ESPPGrants
    /\ esppSalePrice \in ESPPSalePrices
    /\ esppTaxRate \in ESPPTaxRates
    /\ esppNow \in ESPPDates
    /\ esppTax = NotCalled
    /\ esppNetValue = NotCalled
    /\ grants = <<>>
    /\ exercises \in ESPPExercises

\* calculateESPPTax for the shares of the grant, with either value of
\* withTrustee and of holdingPeriodMet.
CallCalculateESPPTax ==
    /\ \E w \in {"true", "false", "undefined"}, h \in BOOLEAN :
          esppTax' =
             [called |-> TRUE,
              withTrustee |-> w,
              holdingPeriodMet |-> h,
              result |-> calculateESPPTax(Frac(esppGrant.price, PriceScale),
                                          esppFairMarketValue(esppGrant),
                                          Frac(esppSalePrice, PriceScale),
                                          Num(esppGrant.amount),
                                          w, h, esppTaxRate)]
    /\ UNCHANGED <<tableVars, firstVars, repeatVars, vestingVars, storeVars,
                   esppGrant, esppSalePrice, esppTaxRate, esppNow,
                   esppNetValue>>

CallCalculateESPPNetValue ==
    /\ esppNetValue' =
         [called |-> TRUE,
          value |-> calculateESPPNetValue(esppGrant, esppSalePrice,
                                          exercises, esppTaxRate, esppNow)]
    /\ UNCHANGED <<tableVars, firstVars, repeatVars, vestingVars, storeVars,
                   esppGrant, esppSalePrice, esppTaxRate, esppNow, esppTax>>

NextESPP ==
    \/ CallCalculateESPPTax
    \/ CallCalculateESPPNetValue

SpecESPP == InitESPP /\ [][NextESPP]_vars

-----------------------------------------------------------------------------
(* Scenario of the vesting calculation: calculateVestedShares for an RSU   *)
(* or Option grant on a date and on a later date.                          *)

MaxVestingMonths == 14
MonthsBeforeStart == 4

VestingStarts ==
    { MakeDate(FirstGrantYear, 0, 15, 0), MakeDate(FirstGrantYear, 10, 30, 0) }

VestingGrants ==
    [amount : {10, 1000},
     vestingFrom : VestingStarts,
     vestingYears : {1, 4},
     type : {"RSUs", "Options"}]

\* The days around each month of the schedule, from before the start of the
\* vesting to after the end of a schedule of one year.
VestingDatesOf(g) ==
    { addDays(addMonths(g.vestingFrom, m), 0 - j) :
         m \in (0 - MonthsBeforeStart)..MaxVestingMonths, j \in 0..MaxDayDelta }

InitVesting ==
    /\ TablesLoaded
    /\ TaxIdle
    /\ NIIdle
    /\ SurtaxIdle
    /\ S102Idle
    /\ SitesIdle
    /\ SettingsDefaults
    /\ GrantTaxIdle
    /\ RepeatIdle
    /\ ESPPIdle
    /\ StoresEmpty
    /\ vestingGrant \in VestingGrants
    /\ vestingDate \in VestingDatesOf(vestingGrant)
    /\ vestingLaterDate \in VestingDatesOf(vestingGrant)
    /\ getTime(vestingDate) <= getTime(vestingLaterDate)
    /\ vestedShares = NotCalled

\* calculateVestedShares on the date and on the later date.
CallCalculateVestedShares ==
    /\ vestedShares' =
         [called |-> TRUE,
          at |-> calculateVestedShares(vestingGrant.amount,
                                       vestingGrant.vestingFrom,
                                       vestingGrant.vestingYears,
                                       vestingDate, vestingGrant.type),
          later |-> calculateVestedShares(vestingGrant.amount,
                                          vestingGrant.vestingFrom,
                                          vestingGrant.vestingYears,
                                          vestingLaterDate,
                                          vestingGrant.type)]
    /\ UNCHANGED <<tableVars, firstVars, repeatVars, esppVars, storeVars,
                   vestingGrant, vestingDate, vestingLaterDate>>

NextVesting == CallCalculateVestedShares

SpecVesting == InitVesting /\ [][NextVesting]_vars

-----------------------------------------------------------------------------
(* Scenario of the stores: the grants of useGrantsStore and the exercises  *)
(* of useExercisesStore, changed by addGrant and, through the exercise     *)
(* form and the list of exercises, by addExercise, updateExercise and      *)
(* deleteExercise.  An id of crypto.randomUUID is an id that no element of *)
(* the store has.                                                          *)

MaxGrants == 2
MaxExercises == 2

GrantAmounts == {100, 200}
ExerciseAmounts == {10, 40}

IdsOf(list) == { list[i].id : i \in 1..Len(list) }

InitStores ==
    /\ TablesLoaded
    /\ TaxIdle
    /\ NIIdle
    /\ SurtaxIdle
    /\ S102Idle
    /\ SitesIdle
    /\ SettingsDefaults
    /\ GrantTaxIdle
    /\ RepeatIdle
    /\ ESPPIdle
    /\ VestingIdle
    /\ StoresEmpty

\* useGrantsStore.addGrant.
addGrant ==
    /\ Len(grants) < MaxGrants
    /\ \E a \in GrantAmounts, uuid \in (1..MaxGrants) \ IdsOf(grants) :
          grants' = Append(grants, [id |-> uuid, amount |-> a])
    /\ UNCHANGED <<tableVars, firstVars, repeatVars, esppVars, vestingVars,
                   exercises>>

\* The exerciseData of onFormSubmit for the selected grant.
ExerciseData(selectedGrant, a) ==
    [amount |-> a, grantAmount |-> selectedGrant.amount,
     grantId |-> selectedGrant.id]

\* onFormSubmit of a new exercise: useExercisesStore.addExercise.
addExercise ==
    /\ Len(exercises) < MaxExercises
    /\ \E i \in 1..Len(grants), a \in ExerciseAmounts,
          uuid \in (1..MaxExercises) \ IdsOf(exercises) :
          LET data == ExerciseData(grants[i], a)
          IN  exercises' =
                 Append(exercises,
                        [id |-> uuid, grantId |-> data.grantId,
                         grantAmount |-> data.grantAmount,
                         amount |-> data.amount])
    /\ UNCHANGED <<tableVars, firstVars, repeatVars, esppVars, vestingVars,
                   grants>>

\* onFormSubmit of an existing exercise: useExercisesStore.updateExercise.
updateExercise ==
    /\ \E k \in 1..Len(exercises), i \in 1..Len(grants),
          a \in ExerciseAmounts :
          LET data == ExerciseData(grants[i], a)
              id == exercises[k].id
          IN  exercises' =
                 [j \in 1..Len(exercises) |->
                     IF exercises[j].id = id
                     THEN [exercises[j] EXCEPT
                              !.amount = data.amount,
                              !.grantAmount = data.grantAmount,
                              !.grantId = data.grantId]
                     ELSE exercises[j]]
    /\ UNCHANGED <<tableVars, firstVars, repeatVars, esppVars, vestingVars,
                   grants>>

RECURSIVE WithoutId(_, _)
WithoutId(list, id) ==
    IF list = <<>> THEN <<>>
    ELSE IF Head(list).id # id
         THEN <<Head(list)>> \o WithoutId(Tail(list), id)
         ELSE WithoutId(Tail(list), id)

\* useExercisesStore.deleteExercise.
deleteExercise ==
    /\ \E k \in 1..Len(exercises) :
          exercises' = WithoutId(exercises, exercises[k].id)
    /\ UNCHANGED <<tableVars, firstVars, repeatVars, esppVars, vestingVars,
                   grants>>

NextStores ==
    \/ addGrant
    \/ addExercise
    \/ updateExercise
    \/ deleteExercise

SpecStores == InitStores /\ [][NextStores]_vars

-----------------------------------------------------------------------------
(* Properties of the income-tax functions (specification Spec).            *)

\* Length of the overlap of [0, income] with [bracket.min, bracket.max].
Overlap(income, bracket) ==
    Max(0, Min(income, bracket.max) - Max(0, bracket.min))

RECURSIVE OverlapSum(_, _, _)
OverlapSum(table, i, income) ==
    IF i > Len(table) THEN 0
    ELSE table[i].rate * Overlap(income, table[i])
            + OverlapSum(table, i + 1, income)

\* The incomes calculateProgressiveTax was called on, and its results.
IncomeAt == [base |-> baseIncome,
             mid  |-> baseIncome + additionalIncome,
             top  |-> baseIncome + additionalIncome + additionalIncome2]

Levels == {"base", "mid", "top"}

\* C1: calculateProgressiveTax(income) is, for income >= 0, the sum over the
\* rows of TAX_BRACKETS of rate x (length of the overlap of [0, income] with
\* [min, max]), and it is 0 for income <= 0.
C1_ProgressiveTaxIsOverlapSum ==
    progressiveTax.called =>
        \A l \in Levels :
            /\ IncomeAt[l] >= 0 =>
                  progressiveTax[l] = OverlapSum(TAX_BRACKETS, 1, IncomeAt[l])
            /\ IncomeAt[l] <= 0 => progressiveTax[l] = 0

\* A call on a non-positive income, on an income inside the third bracket
\* and on an income in the unbounded last bracket.
C1_Witness ==
    /\ progressiveTax.called
    /\ baseIncome <= 0
    /\ IncomeAt.mid > TAX_BRACKETS[3].min
    /\ IncomeAt.mid < TAX_BRACKETS[3].max
    /\ progressiveTax.mid > 0
    /\ IncomeAt.top > TAX_BRACKETS[Len(TAX_BRACKETS)].min

\* C2: calculateProgressiveTax is monotone: income2 > income1 >= 0 implies
\* calculateProgressiveTax(income2) >= calculateProgressiveTax(income1).
C2_Monotonicity ==
    progressiveTax.called =>
        \A l1, l2 \in Levels :
            (IncomeAt[l2] > IncomeAt[l1] /\ IncomeAt[l1] >= 0)
                => progressiveTax[l2] >= progressiveTax[l1]

\* Two incomes on the two sides of a bracket boundary, one shekel apart.
C2_Witness ==
    /\ progressiveTax.called
    /\ baseIncome + 1 \in Boundaries
    /\ additionalIncome = 1
    /\ additionalIncome2 = 1
    /\ progressiveTax.top > progressiveTax.mid
    /\ progressiveTax.mid > progressiveTax.base

\* The row of TAX_BRACKETS that starts at boundary b.
RowAt(b) == CHOOSE i \in 1..Len(TAX_BRACKETS) : TAX_BRACKETS[i].min = b

\* C3: continuity at the boundaries: for a boundary b of TAX_BRACKETS and
\* 0 <= e <= width of the bracket that starts at b,
\* calculateProgressiveTax(b + e) =
\*     calculateProgressiveTax(b) + e x (rate of the bracket starting at b).
C3_ContinuityAtBoundaries ==
    (/\ progressiveTax.called
     /\ baseIncome \in Boundaries
     /\ additionalIncome >= 0
     /\ additionalIncome <= TAX_BRACKETS[RowAt(baseIncome)].max - baseIncome)
        => progressiveTax.mid =
              progressiveTax.base
                 + additionalIncome * TAX_BRACKETS[RowAt(baseIncome)].rate

\* From an inner boundary over the whole width of the bracket that starts
\* there, up to the next boundary.
C3_Witness ==
    /\ progressiveTax.called
    /\ baseIncome \in Boundaries
    /\ baseIncome > 0
    /\ additionalIncome > 1
    /\ IncomeAt.mid \in Boundaries
    /\ progressiveTax.mid > progressiveTax.base

RowsOf(income) ==
    { i \in 1..Len(TAX_BRACKETS) :
         TAX_BRACKETS[i].min <= income /\ income < TAX_BRACKETS[i].max }

-----------------------------------------------------------------------------
(* Properties of the bracket tables and of the national-insurance          *)
(* functions (specification SpecNI).                                       *)

\* Floors and ceilings of a table: the first floor is 0, each floor is the
\* previous ceiling, floors strictly increase, the last ceiling is unbounded.
Contiguous(table) ==
    /\ Len(table) >= 1
    /\ table[1].min = 0
    /\ table[Len(table)].max = Infinity
    /\ \A i \in 2..Len(table) :
          /\ table[i].min = table[i - 1].max
          /\ table[i].min > table[i - 1].min

\* Rates do not decrease over rows 1..n of a table.
RatesNonDecreasing(table, n) ==
    \A i \in 2..n : table[i].rate >= table[i - 1].rate

BracketTable(table) ==
    /\ Contiguous(table)
    /\ RatesNonDecreasing(table, Len(table))

\* C6 as stated: TAX_BRACKETS and NATIONAL_INSURANCE_BRACKETS both satisfy
\* the BracketTable invariant, non-decreasing rates included.
C6_AllTablesAreBracketTables ==
    /\ BracketTable(taxBrackets)
    /\ BracketTable(nationalInsuranceBrackets)

\* C6 amended: both tables are contiguous from 0 with strictly increasing
\* floors and an unbounded last ceiling; the rates of TAX_BRACKETS are
\* non-decreasing; the rates of NATIONAL_INSURANCE_BRACKETS are
\* non-decreasing up to the row before the last, and the last row (above the
\* contribution cap) has rate 0.
C6_TablesContiguousRatesUpToCap ==
    /\ BracketTable(taxBrackets)
    /\ Contiguous(nationalInsuranceBrackets)
    /\ RatesNonDecreasing(nationalInsuranceBrackets,
                          Len(nationalInsuranceBrackets) - 1)
    /\ nationalInsuranceBrackets[Len(nationalInsuranceBrackets)].rate = 0

\* A call that walks every row of NATIONAL_INSURANCE_BRACKETS: the salary is
\* above the last floor, and the additional income adds nothing.
C6_Witness ==
    /\ nationalInsurance.called
    /\ baseMonthlySalaryIls > NI_CAP
    /\ additionalMonthlyIncomeIls > 0
    /\ nationalInsurance.total = nationalInsurance.base

\* C7: the contribution is capped: for a monthly income m >= 50695,
\* calculateNationalInsuranceMonthly(m) =
\* calculateNationalInsuranceMonthly(50695); and for a base monthly salary
\* >= 50695 and an additional income >= 0,
\* calculateAdditionalNationalInsurance(base, additional) = 0.
C7_ContributionCap ==
    /\ nationalInsurance.called =>
          /\ baseMonthlySalaryIls >= NI_CAP =>
                nationalInsurance.base = nationalInsurance.cap
          /\ baseMonthlySalaryIls + additionalMonthlyIncomeIls >= NI_CAP =>
                nationalInsurance.total = nationalInsurance.cap
    /\ (/\ additionalNI.called
        /\ baseMonthlySalaryIls >= NI_CAP
        /\ additionalMonthlyIncomeIls >= 0)
          => additionalNI.tax = 0

\* A salary above the cap with a positive additional income, both functions
\* called; the contribution at the cap is not 0.
C7_Witness ==
    /\ nationalInsurance.called
    /\ additionalNI.called
    /\ baseMonthlySalaryIls > NI_CAP
    /\ additionalMonthlyIncomeIls > 0
    /\ nationalInsurance.cap > 0
    /\ additionalNI.tax = 0

-----------------------------------------------------------------------------
(* Properties of the surtax function (specification SpecSurtax).           *)

\* C8: calculateSurtax(labor, passive) follows the labor-first split: all
\* three outputs are 0 if labor + passive <= 721560; otherwise, with
\* excess = labor + passive - 721560, laborSurtax = 0.03 x min(excess, labor),
\* passiveSurtax = 0.05 x max(0, excess - min(excess, labor)), totalSurtax is
\* their sum; for labor = 800000 and passive = 0,
\* laborSurtax = (800000 - 721560) x 0.03 and passiveSurtax = 0.
C8_SurtaxLaborFirst ==
    surtax.called =>
        LET labor == annualLaborIncomeIls
            passive == annualPassiveIncomeIls
            excess == labor + passive - 721560
            r == surtax.result
        IN  /\ labor + passive <= 721560 =>
                  /\ r.laborSurtax = 0
                  /\ r.passiveSurtax = 0
                  /\ r.totalSurtax = 0
            /\ labor + passive > 721560 =>
                  /\ r.laborSurtax = 3 * Min(excess, labor)
                  /\ r.passiveSurtax = 5 * Max(0, excess - Min(excess, labor))
                  /\ r.totalSurtax = r.laborSurtax + r.passiveSurtax
            /\ (labor > 721560 /\ passive = 0) =>
                  /\ r.laborSurtax = (labor - 721560) * 3
                  /\ r.passiveSurtax = 0
            /\ (labor = 800000 /\ passive = 0) => r.laborSurtax = 78440 * 3

\* Labor and passive income both positive, the labor income below the
\* excess: both parts of the surtax are charged.
C8_Witness ==
    /\ surtax.called
    /\ annualLaborIncomeIls > 0
    /\ annualPassiveIncomeIls > 0
    /\ surtax.result.laborSurtax > 0
    /\ surtax.result.passiveSurtax > 0

-----------------------------------------------------------------------------
(* Properties of the holding period (specification SpecS102).              *)

\* The date exactly 24 calendar months after the grant date, at the grant's
\* time of day, and the date one day earlier.
TwoYearsAfterGrant == addMonths(grant.grantDate, 24)
OneDayEarlier == addDays(TwoYearsAfterGrant, 0 - 1)

\* C9: for a grant with the preferential track enabled, an as-of date
\* exactly 24 calendar months after the grant date is Eligible
\* (hasMetSection102HoldingPeriod true, status 'eligible') and an as-of date
\* one day earlier is Waiting, for every grant date, month ends and dates
\* with a time of day included.
C9_EligibilityBoundary ==
    grant.isSection102 # "false" =>
        /\ currentDate = TwoYearsAfterGrant =>
              /\ holdingPeriodMet.called => holdingPeriodMet.met
              /\ section102Status.called =>
                    section102Status.result.status = "eligible"
        /\ currentDate = OneDayEarlier =>
              /\ holdingPeriodMet.called => ~holdingPeriodMet.met
              /\ section102Status.called =>
                    section102Status.result.status = "waiting"

\* A grant of 29 February in the afternoon, classified on the day 24 months
\* later (28 February) at the same time of day.
C9_Witness ==
    /\ grant.isSection102 # "false"
    /\ grant.grantDate.month = 1
    /\ grant.grantDate.date = 29
    /\ grant.grantDate.hours = 14
    /\ currentDate = TwoYearsAfterGrant
    /\ currentDate.date = 28
    /\ holdingPeriodMet.called
    /\ holdingPeriodMet.met
    /\ section102Status.called
    /\ section102Status.result.status = "eligible"

\* Whole months elapsed from the grant date to the as-of date.
ElapsedMonths == differenceInMonths(currentDate, grant.grantDate)

\* The classification of C10: the three states as functions of the grant's
\* track flag and of the elapsed months.
StatusIsThreeStateFunction ==
    section102Status.called =>
        LET status == section102Status.result.status
        IN  /\ status \in {"not-applicable", "eligible", "waiting"}
            /\ status = "not-applicable" <=> grant.isSection102 = "false"
            /\ status = "eligible" <=>
                  (grant.isSection102 # "false" /\ ElapsedMonths >= 24)
            /\ status = "waiting" <=>
                  (grant.isSection102 # "false" /\ ElapsedMonths < 24)

MonthsPositiveIffWaiting ==
    (section102Status.called /\ monthsUntilEligible.called) =>
        /\ monthsUntilEligible.months > 0 <=>
              section102Status.result.status = "waiting"
        /\ section102Status.result.status # "waiting" =>
              monthsUntilEligible.months = 0

\* C10 as stated: the classification is a 3-state function (NotApplicable
\* iff isSection102 === false, Eligible iff enabled and elapsed months >= 24,
\* Waiting otherwise), getMonthsUntilSection102Eligible returns
\* max(0, 24 - elapsedMonths), and that is > 0 exactly when Waiting.
C10_MonthsIsMaxForEveryGrant ==
    /\ StatusIsThreeStateFunction
    /\ monthsUntilEligible.called =>
          monthsUntilEligible.months = Max(0, 24 - ElapsedMonths)
    /\ MonthsPositiveIffWaiting

\* C10 amended: the classification is a 3-state function as stated;
\* getMonthsUntilSection102Eligible returns max(0, 24 - elapsedMonths) for a
\* grant with the track enabled and 0 for a grant with the track disabled;
\* the result is > 0 exactly when the state is Waiting.
C10_ThreeStatesAndMonthsRemaining ==
    /\ StatusIsThreeStateFunction
    /\ monthsUntilEligible.called =>
          /\ grant.isSection102 # "false" =>
                monthsUntilEligible.months = Max(0, 24 - ElapsedMonths)
          /\ grant.isSection102 = "false" => monthsUntilEligible.months = 0
    /\ MonthsPositiveIffWaiting

\* A grant with the track disabled, less than 24 months old: NotApplicable
\* with 0 months remaining.
C10_Witness ==
    /\ grant.isSection102 = "false"
    /\ ElapsedMonths < 24
    /\ ElapsedMonths > 0
    /\ section102Status.called
    /\ section102Status.result.status = "not-applicable"
    /\ monthsUntilEligible.called
    /\ monthsUntilEligible.months = 0

-----------------------------------------------------------------------------
(* Properties of the call sites of the holding period (specification       *)
(* SpecSites).                                                             *)

\* C11: every call site that decides whether the 24-month holding period is
\* met uses the same whole-month differencing: for a start date (the grant
\* date of a grant with the track enabled, the purchase date of an ESPP
\* grant) and an as-of date, hasMetSection102HoldingPeriod, the check of
\* calculateESPPNetValue and the checks of Overview and ExerciseForm give the
\* same answer, and a grant that is Waiting never reports 0 days remaining.
C11_CallSitesAgree ==
    (grant.isSection102 # "false" /\ purchaseDate = <<grant.grantDate>>) =>
        /\ (holdingPeriodMet.called /\ esppHoldingPeriodMet.called) =>
              esppHoldingPeriodMet.met = holdingPeriodMet.met
        /\ (holdingPeriodMet.called /\ overviewHoldingPeriodMet.called) =>
              overviewHoldingPeriodMet.met = holdingPeriodMet.met
        /\ (holdingPeriodMet.called /\ exerciseFormHoldingPeriodMet.called) =>
              exerciseFormHoldingPeriodMet.met = holdingPeriodMet.met
        /\ (/\ holdingPeriodMet.called
            /\ ~holdingPeriodMet.met
            /\ daysUntilEligible.called) => daysUntilEligible.days > 0

-----------------------------------------------------------------------------
(* Properties of the grant calculations (specification SpecGrantTax).      *)

\* The arguments and the result of the call of calculateTaxForGrant.
Result == taxResult.result
Settings == taxResult.settings
ExchangeRate == Frac(usdToIls, ExchangeRateScale)
ToIls(usdAmount) == QMul(usdAmount, ExchangeRate)
ToUsd(ilsAmount) == QDiv(ilsAmount, ExchangeRate)
Percent(amount, percent) == QMul(amount, Frac(percent, 100))

\* The state of the holding period of the grant at the date of the call.
Eligible ==
    /\ taxGrant.isSection102 # "false"
    /\ differenceInMonths(exerciseDate, taxGrant.grantDate) >= 24

\* Length of the overlap of [0, amount] with the range of a bracket.
QOverlap(amount, bracket) ==
    LET upper == IF bracket.max = Infinity THEN amount
                 ELSE QMin(amount, Num(bracket.max))
    IN  QMax(Zero, QSub(upper, Num(bracket.min)))

\* Sum over the rows of a table of rate x overlap.
RECURSIVE QOverlapSum(_, _, _, _)
QOverlapSum(table, scale, i, amount) ==
    IF i > Len(table) THEN Zero
    ELSE QAdd(QMul(QOverlap(amount, table[i]), Frac(table[i].rate, scale)),
              QOverlapSum(table, scale, i + 1, amount))

\* Cumulative income tax of an annual amount and social contribution of a
\* monthly amount, by the tables.
CumulativeTax(amount) == QOverlapSum(TAX_BRACKETS, RateScale, 1, amount)
MonthlyContribution(amount) ==
    QOverlapSum(NATIONAL_INSURANCE_BRACKETS, NIRateScale, 1, amount)

\* The annual income of the settings, when one is supplied.
HasAnnualIncome == ~Settings.annualIncome.null /\ Settings.annualIncome.value > 0
AnnualIncome == IF HasAnnualIncome THEN Num(Settings.annualIncome.value) ELSE Zero

\* Income tax of an amount in shekels by the mode of the settings.
IncomeTaxByMode(amount) ==
    IF Settings.useProgressiveTax
    THEN IF HasAnnualIncome
         THEN QSub(CumulativeTax(QAdd(AnnualIncome, amount)),
                   CumulativeTax(AnnualIncome))
         ELSE CumulativeTax(amount)
    ELSE IF ~Settings.marginalTaxRate.null
    THEN Percent(amount, Settings.marginalTaxRate.value)
    ELSE Percent(amount, 47)

\* Social contribution of an amount in shekels: 12 x the additional monthly
\* contribution of amount / 12 on top of annualIncome / 12.
SocialContribution(amount) ==
    LET base == QDiv(AnnualIncome, Num(12))
        additional == QDiv(amount, Num(12))
    IN  QMul(Num(12), QSub(MonthlyContribution(QAdd(base, additional)),
                           MonthlyContribution(base)))

\* Surtax of a labor income and of a passive income that is the only income.
LaborSurtaxOf(income) == Percent(QMax(Zero, QSub(income, Num(721560))), 3)
PassiveSurtaxOf(income) == Percent(QMax(Zero, QSub(income, Num(721560))), 5)

\* Labor surtax of an amount on top of the annual income.
LaborSurtaxOnTop(amount) ==
    QSub(LaborSurtaxOf(QAdd(AnnualIncome, amount)), LaborSurtaxOf(AnnualIncome))

SumOfBreakdown ==
    QAdd(QAdd(QAdd(Result.breakdown.incomeTax,
                   Result.breakdown.nationalInsurance),
              Result.breakdown.capitalGainsTax),
         Result.breakdown.surtax)

\* C12: RSU, Eligible and track 'capital-gains': calculateRSUTax reports
\* grossGain = shares x currentPrice and splits it into the grant value
\* (shares x issuePrice), which alone is charged income tax and social
\* contribution, and the appreciation (grossGain - grant value), which is
\* charged capital-gains tax at 25% (30% for a controlling shareholder) plus
\* the passive surtax of calculateSurtax(0, appreciation in ILS); no labor
\* surtax is charged.
C12_RSUCapitalGainsTrack ==
    (/\ taxResult.called
     /\ taxGrant.type = "RSUs"
     /\ Eligible
     /\ taxGrant.section102Track = "capital-gains") =>
        LET grossGain == Frac(shares * currentPrice, PriceScale)
            grantValue == Frac(shares * taxGrant.price, PriceScale)
            appreciation == QSub(grossGain, grantValue)
        IN  /\ Result.grossGain = grossGain
            /\ Result.breakdown.incomeTax =
                  ToUsd(IncomeTaxByMode(ToIls(grantValue)))
            /\ Result.breakdown.nationalInsurance =
                  ToUsd(SocialContribution(ToIls(grantValue)))
            /\ Result.breakdown.capitalGainsTax =
                  Percent(appreciation,
                          IF Settings.isControllingShareholder THEN 30 ELSE 25)
            /\ Result.breakdown.surtax =
                  ToUsd(PassiveSurtaxOf(ToIls(appreciation)))
            /\ Result.totalTax = SumOfBreakdown

\* An eligible capital-gains RSU grant of a controlling shareholder whose
\* appreciation is above the surtax threshold: all four parts are charged.
C12_Witness ==
    /\ taxResult.called
    /\ taxGrant.type = "RSUs"
    /\ Eligible
    /\ taxGrant.section102Track = "capital-gains"
    /\ Settings.isControllingShareholder
    /\ HasAnnualIncome
    /\ QLt(Zero, Result.breakdown.incomeTax)
    /\ QLt(Zero, Result.breakdown.nationalInsurance)
    /\ QLt(Zero, Result.breakdown.capitalGainsTax)
    /\ QLt(Zero, Result.breakdown.surtax)

\* The gross gain of the grant: shares x currentPrice of an RSU grant,
\* shares x (currentPrice - issuePrice) of options in the money, 0 of
\* options that are not.
GrossGain ==
    IF taxGrant.type = "RSUs" THEN Frac(shares * currentPrice, PriceScale)
    ELSE IF currentPrice > taxGrant.price
    THEN Frac(shares * (currentPrice - taxGrant.price), PriceScale)
    ELSE Zero

\* The grant is taxed on the ordinary-income path: an RSU grant that is not
\* Eligible or whose track is 'ordinary-income', options that are not
\* Eligible (a grant with the track disabled is not Eligible).
OrdinaryIncomePath ==
    \/ /\ taxGrant.type = "RSUs"
       /\ (~Eligible \/ taxGrant.section102Track = "ordinary-income")
    \/ /\ taxGrant.type = "Options"
       /\ ~Eligible

\* C13: on the ordinary-income path capitalGainsTax = 0 and the whole gross
\* gain in ILS is charged income tax by the selected mode, plus social
\* contribution = 12 x the additional monthly contribution of gain / 12 on
\* top of annualIncome / 12 (12 x the monthly contribution of gain / 12 when
\* there is no annual income), plus labor surtax =
\* laborSurtax(annualIncome + gain) - laborSurtax(annualIncome).
C13_OrdinaryIncomePath ==
    (taxResult.called /\ OrdinaryIncomePath) =>
        /\ Result.grossGain = GrossGain
        /\ Result.breakdown.capitalGainsTax = Zero
        /\ Result.breakdown.incomeTax = ToUsd(IncomeTaxByMode(ToIls(GrossGain)))
        /\ Result.breakdown.nationalInsurance =
              ToUsd(SocialContribution(ToIls(GrossGain)))
        /\ ~HasAnnualIncome =>
              Result.breakdown.nationalInsurance =
                 ToUsd(QMul(Num(12),
                            MonthlyContribution(QDiv(ToIls(GrossGain),
                                                     Num(12)))))
        /\ Result.breakdown.surtax = ToUsd(LaborSurtaxOnTop(ToIls(GrossGain)))
        /\ Result.totalTax = SumOfBreakdown

\* Options that are not Eligible, with an annual income below the threshold
\* of the surtax and a gain that passes it: income tax, social contribution
\* and labor surtax are charged.
C13_Witness ==
    /\ taxResult.called
    /\ taxGrant.type = "Options"
    /\ taxGrant.isSection102 # "false"
    /\ ~Eligible
    /\ HasAnnualIncome
    /\ QLt(AnnualIncome, Num(721560))
    /\ Settings.useProgressiveTax
    /\ QLt(Zero, Result.breakdown.incomeTax)
    /\ QLt(Zero, Result.breakdown.nationalInsurance)
    /\ QLt(Zero, Result.breakdown.surtax)

\* The settings supply only a fixed marginal rate: no annual income and
\* progressive tax off.
OnlyMarginalRate ==
    /\ ~Settings.marginalTaxRate.null
    /\ Settings.annualIncome.null
    /\ ~Settings.useProgressiveTax

MarginalRateTax(amount) == Percent(amount, Settings.marginalTaxRate.value)

\* The scenario of the RSU grant of 1000 shares at the default exchange rate.
RSUScenario ==
    /\ shares = 1000
    /\ taxGrant.price = 1550
    /\ currentPrice = 2200
    /\ Settings.marginalTaxRate = Value(47)
    /\ usdToIls = 365

\* C14 as stated: for an RSU grant that is not Eligible and settings that
\* supply only a fixed marginal rate r, calculateTaxForGrant returns
\* grossGain = shares x currentPrice, totalTax = r x grossGain and
\* netGain = grossGain - totalTax.
C14_TotalTaxIsMarginalRate ==
    (/\ taxResult.called
     /\ taxGrant.type = "RSUs"
     /\ ~Eligible
     /\ OnlyMarginalRate) =>
        LET grossGain == Frac(shares * currentPrice, PriceScale)
        IN  /\ Result.grossGain = grossGain
            /\ Result.totalTax = MarginalRateTax(grossGain)
            /\ Result.netGain = QSub(grossGain, Result.totalTax)

\* C14: for an RSU grant that is not Eligible and settings that supply only
\* a fixed marginal rate r (no annual income, progressive off),
\* calculateTaxForGrant returns grossGain = shares x currentPrice, income tax
\* = r x grossGain, totalTax = r x grossGain + the social contribution and
\* the labor surtax of the gain, and netGain = grossGain - totalTax; 1000
\* shares, issuePrice 15.50, currentPrice 22.00, r = 0.47 and exchange rate
\* 3.65 give grossGain 22000, income tax 10340, totalTax 11279.40 and
\* netGain 10720.60.
C14_RSUFixedMarginalRate ==
    (/\ taxResult.called
     /\ taxGrant.type = "RSUs"
     /\ ~Eligible
     /\ OnlyMarginalRate) =>
        LET grossGain == Frac(shares * currentPrice, PriceScale)
        IN  /\ Result.grossGain = grossGain
            /\ Result.breakdown.incomeTax = MarginalRateTax(grossGain)
            /\ Result.totalTax =
                  QAdd(MarginalRateTax(grossGain),
                       QAdd(ToUsd(SocialContribution(ToIls(grossGain))),
                            ToUsd(LaborSurtaxOnTop(ToIls(grossGain)))))
            /\ Result.netGain = QSub(grossGain, Result.totalTax)
            /\ RSUScenario =>
                  /\ Result.grossGain = Num(22000)
                  /\ Result.breakdown.incomeTax = Num(10340)
                  /\ Result.totalTax = Frac(1127940, 100)
                  /\ Result.netGain = Frac(1072060, 100)

\* The scenario has been calculated for a grant that is not Eligible.
C14_Witness ==
    /\ taxResult.called
    /\ taxGrant.type = "RSUs"
    /\ ~Eligible
    /\ OnlyMarginalRate
    /\ RSUScenario
    /\ Result.totalTax = Frac(1127940, 100)

\* Every part of the result is zero.
ZeroResult ==
    /\ Result.grossGain = Zero
    /\ Result.totalTax = Zero
    /\ Result.netGain = Zero
    /\ Result.effectiveTaxRate = Zero
    /\ Result.breakdown.incomeTax = Zero
    /\ Result.breakdown.nationalInsurance = Zero
    /\ Result.breakdown.capitalGainsTax = Zero
    /\ Result.breakdown.surtax = Zero

\* C15: for every Option grant, share count, settings, exchange rate and
\* date, currentPrice <= grant.price implies that calculateOptionTax returns
\* grossGain = 0, totalTax = 0, netGain = 0, effectiveTaxRate = 0 and every
\* component of the breakdown 0.
C15_OptionUnderwater ==
    (/\ taxResult.called
     /\ taxGrant.type = "Options"
     /\ currentPrice <= taxGrant.price) => ZeroResult

\* Eligible options below the grant price have been calculated for a
\* positive share count.
C15_Witness ==
    /\ taxResult.called
    /\ taxGrant.type = "Options"
    /\ currentPrice < taxGrant.price
    /\ shares > 0
    /\ Eligible
    /\ Result.grossGain = Zero

\* C16: options in the money and Eligible: grossGain = shares x
\* (currentPrice - issuePrice), capitalGainsTax = 0.25 x grossGain for a
\* non-controlling shareholder and 0.30 x grossGain for a controlling one,
\* income tax and social contribution are 0, and surtax is the passive
\* surtax of the gain; 500 shares, issuePrice 12.25, currentPrice 20.00,
\* non-controlling give grossGain 3875 and capitalGainsTax 968.75.
C16_OptionEligible ==
    (/\ taxResult.called
     /\ taxGrant.type = "Options"
     /\ currentPrice > taxGrant.price
     /\ Eligible) =>
        LET grossGain ==
                Frac(shares * (currentPrice - taxGrant.price), PriceScale)
        IN  /\ Result.grossGain = grossGain
            /\ Result.breakdown.capitalGainsTax =
                  Percent(grossGain,
                          IF Settings.isControllingShareholder THEN 30 ELSE 25)
            /\ Result.breakdown.incomeTax = Zero
            /\ Result.breakdown.nationalInsurance = Zero
            /\ Result.breakdown.surtax = ToUsd(PassiveSurtaxOf(ToIls(grossGain)))
            /\ (/\ shares = 500
                /\ taxGrant.price = 1225
                /\ currentPrice = 2000
                /\ ~Settings.isControllingShareholder) =>
                  /\ Result.grossGain = Num(3875)
                  /\ Result.breakdown.capitalGainsTax = Frac(96875, 100)

\* The scenario of the 500 options has been calculated.
C16_Witness ==
    /\ taxResult.called
    /\ taxGrant.type = "Options"
    /\ Eligible
    /\ shares = 500
    /\ taxGrant.price = 1225
    /\ currentPrice = 2000
    /\ ~Settings.isControllingShareholder
    /\ Result.breakdown.capitalGainsTax = Frac(96875, 100)

\* C17 as stated: the income tax of the ordinary-income path is (a) gain x
\* the fixed marginal rate when a marginal rate is supplied, (b) the
\* additional progressive tax of the gain on top of the annual income when
\* an annual income is supplied, (c) the progressive tax of the gain
\* otherwise.
C17_ModeBySuppliedFields ==
    (/\ taxResult.called
     /\ OrdinaryIncomePath) =>
        LET gainIls == ToIls(GrossGain)
            income == Num(Settings.annualIncome.value)
        IN  Result.breakdown.incomeTax =
                IF ~Settings.marginalTaxRate.null
                THEN MarginalRateTax(GrossGain)
                ELSE IF ~Settings.annualIncome.null
                THEN ToUsd(QSub(CumulativeTax(QAdd(income, gainIls)),
                                CumulativeTax(income)))
                ELSE ToUsd(CumulativeTax(gainIls))

\* The three modes of the settings.
MarginalMode == ~Settings.useProgressiveTax
AdditionalMode == Settings.useProgressiveTax /\ HasAnnualIncome
ProgressiveMode == Settings.useProgressiveTax /\ ~HasAnnualIncome

\* C17: on the ordinary-income path the income tax is computed, for every
\* settings value, by exactly one of (a) gain x the fixed marginal rate when
\* progressive tax is off (the supplied rate, or 0.47 when none is
\* supplied), (b) the additional progressive tax of the gain in ILS on top
\* of the annual income when progressive tax is on and a positive annual
\* income is supplied, (c) the progressive tax of the gain in ILS when
\* progressive tax is on and no positive annual income is supplied; the same
\* rule is applied to RSU grants and to options.
C17_TaxModeSelection ==
    (/\ taxResult.called
     /\ OrdinaryIncomePath) =>
        LET gainIls == ToIls(GrossGain)
        IN  /\ MarginalMode =>
                  Result.breakdown.incomeTax =
                     IF Settings.marginalTaxRate.null
                     THEN Percent(GrossGain, 47)
                     ELSE MarginalRateTax(GrossGain)
            /\ AdditionalMode =>
                  Result.breakdown.incomeTax =
                     ToUsd(QSub(CumulativeTax(QAdd(AnnualIncome, gainIls)),
                                CumulativeTax(AnnualIncome)))
            /\ ProgressiveMode =>
                  Result.breakdown.incomeTax = ToUsd(CumulativeTax(gainIls))

\* Progressive tax is on and a marginal rate is supplied as well, with an
\* annual income: the additional progressive tax is charged and it is not
\* the marginal rate's tax.
C17_Witness ==
    /\ taxResult.called
    /\ OrdinaryIncomePath
    /\ AdditionalMode
    /\ ~Settings.marginalTaxRate.null
    /\ QLt(Zero, Result.breakdown.incomeTax)
    /\ Result.breakdown.incomeTax # MarginalRateTax(GrossGain)

\* The settings supply no usable mode: no marginal rate, progressive off.
NoUsableMode ==
    /\ Settings.marginalTaxRate.null
    /\ ~Settings.useProgressiveTax

\* The rate of the last row of TAX_BRACKETS.
TopBracketRate == TAX_BRACKETS[Len(TAX_BRACKETS)].rate

\* C19 as stated: when the settings supply no usable mode, the income tax of
\* the ordinary-income path is gain x the top-bracket rate of TAX_BRACKETS.
C19_FallbackIsTopBracketRate ==
    (/\ taxResult.called
     /\ OrdinaryIncomePath
     /\ NoUsableMode) =>
        Result.breakdown.incomeTax =
            QMul(GrossGain, Frac(TopBracketRate, RateScale))

\* C19: when the settings supply no usable mode (marginalTaxRate null with
\* progressive calculation off), the income tax of the ordinary-income path
\* is gain x 0.47, the rate of the row below the top row of TAX_BRACKETS.
C19_FallbackDefault ==
    (/\ taxResult.called
     /\ OrdinaryIncomePath
     /\ NoUsableMode) =>
        /\ Result.breakdown.incomeTax = Percent(GrossGain, 47)
        /\ TAX_BRACKETS[Len(TAX_BRACKETS) - 1].rate = 47
        /\ TopBracketRate # 47

\* A positive gain has been taxed with no usable mode, for an RSU grant and
\* with an annual income in the settings.
C19_Witness ==
    /\ taxResult.called
    /\ OrdinaryIncomePath
    /\ NoUsableMode
    /\ taxGrant.type = "RSUs"
    /\ HasAnnualIncome
    /\ QLt(Zero, GrossGain)
    /\ Result.breakdown.incomeTax = Percent(GrossGain, 47)

\* C20: for every grant type, price, settings, exchange rate and date,
\* calculateTaxForGrant with shares <= 0 returns a zero-valued result:
\* grossGain = totalTax = netGain = effectiveTaxRate = 0 and every component
\* of the breakdown 0.
C20_NoSharesNoResult ==
    (taxResult.called /\ shares <= 0) => ZeroResult

-----------------------------------------------------------------------------
(* Properties of the settings panel (specification SpecSettings).          *)

\* The settings of a call with the fields of the inactive modes cleared: the
\* annual income when the fixed marginal rate is active, the marginal rate
\* when a progressive mode is.
ActiveFieldsOnly(taxSettings) ==
    IF ~taxSettings.useProgressiveTax /\ ~taxSettings.marginalTaxRate.null
    THEN [taxSettings EXCEPT !.annualIncome = Null]
    ELSE [taxSettings EXCEPT !.marginalTaxRate = Null]

\* C18: after any sequence of handleTaxMethodChange('progressive' |
\* 'marginal' | 'income'), setMarginalTaxRate and setAnnualIncome from the
\* defaults of the store, at most one of marginalTaxRate and annualIncome is
\* populated, and the result of the engine depends on no field of an
\* inactive mode.
C18_ModeMutuallyExclusive ==
    /\ marginalTaxRate.null \/ annualIncome.null
    /\ taxResult.called =>
          taxResult.result =
             calculateTaxForGrant(taxGrant, shares, currentPrice,
                                  ActiveFieldsOnly(taxResult.settings),
                                  usdToIls, exerciseDate)

-----------------------------------------------------------------------------
(* Properties of the ratios of the grant calculations (specification       *)
(* SpecRatios).                                                            *)

\* Every number of the result is a finite number.
FiniteResult ==
    /\ IsFinite(Result.grossGain)
    /\ IsFinite(Result.totalTax)
    /\ IsFinite(Result.netGain)
    /\ IsFinite(Result.effectiveTaxRate)
    /\ IsFinite(Result.breakdown.incomeTax)
    /\ IsFinite(Result.breakdown.nationalInsurance)
    /\ IsFinite(Result.breakdown.capitalGainsTax)
    /\ IsFinite(Result.breakdown.surtax)

\* C21: for every input, including grossGain = 0 and an exchange rate of 0,
\* calculateRSUTax and calculateOptionTax return a finite number in every
\* field of the result (never the value of a division by zero), and
\* effectiveTaxRate = 0 whenever grossGain = 0.
C21_RatiosGuarded ==
    taxResult.called =>
        /\ FiniteResult
        /\ Result.grossGain = Zero => Result.effectiveTaxRate = Zero

-----------------------------------------------------------------------------
(* Properties of repeated calls (specification SpecEngine).                *)

-----------------------------------------------------------------------------
(* Properties of the dispatch of the grant calculations (specification     *)
(* SpecGrantTax).                                                          *)

\* The tax of the ESPP rules for the grant of the call: the fair-market
\* value is issuePrice / (1 - discount) with the default discount, the
\* trustee is the Section 102 flag of the grant, and the holding period
\* runs from the date of the grant.
ESPPRulesTax ==
    calculateESPPTax(
        Frac(taxGrant.price, PriceScale),
        QDiv(Frac(taxGrant.price, PriceScale),
             Frac(100 - DefaultESPPDiscount, 100)),
        Frac(currentPrice, PriceScale),
        Num(shares),
        taxGrant.isSection102,
        monthsDifference(taxGrant.grantDate, exerciseDate) >= 24,
        IF Settings.marginalTaxRate.null THEN DefaultESPPMarginalTaxRate
        ELSE Settings.marginalTaxRate.value)

\* C23: calculateTaxForGrant selects the treatment by grant.type: an RSU
\* grant gets the RSU rules, an Option grant the Option rules, and an ESPP
\* grant the ESPP rules (fair-market value = issuePrice / (1 - discount),
\* discount benefit and appreciation taxed by the branches of the trustee
\* and of the holding period), never the rules of another type.
C23_InstrumentDispatch ==
    taxResult.called =>
        /\ taxGrant.type = "RSUs" =>
              Result = calculateRSUTax(taxGrant, shares, currentPrice,
                                       Settings, usdToIls, exerciseDate)
        /\ taxGrant.type = "Options" =>
              Result = calculateOptionTax(taxGrant, shares, currentPrice,
                                          Settings, usdToIls, exerciseDate)
        /\ taxGrant.type = "ESPP" =>
              /\ Result.totalTax = ESPPRulesTax.totalTax
              /\ Result # calculateOptionTax(taxGrant, shares, currentPrice,
                                             Settings, usdToIls, exerciseDate)

-----------------------------------------------------------------------------
(* Properties of the ESPP calculations (specification SpecESPP).           *)

\* The amounts of the sale of the shares of the call of calculateESPPTax.
ESPPRate == Frac(esppTaxRate, RateScale)
ESPPPurchasePrice == Frac(esppGrant.price, PriceScale)
ESPPSalePrice == Frac(esppSalePrice, PriceScale)
ESPPDiscountBenefit ==
    QMul(QSub(esppFairMarketValue(esppGrant), ESPPPurchasePrice),
         Num(esppGrant.amount))
ESPPAppreciation ==
    QMul(QSub(ESPPSalePrice, esppFairMarketValue(esppGrant)),
         Num(esppGrant.amount))
ESPPGain ==
    QMul(QSub(ESPPSalePrice, ESPPPurchasePrice), Num(esppGrant.amount))

\* The tax of the appreciation of a number of shares without a trustee: at
\* the capital-gains rate if the holding period is met, at the
\* ordinary-income rate if it is not.
AppreciationTax(availableShares, holdingMet) ==
    QMul(QMul(QSub(ESPPSalePrice, esppFairMarketValue(esppGrant)),
              availableShares),
         IF holdingMet THEN Frac(ESPPCapitalGainsRate, RateScale)
         ELSE ESPPRate)

\* The shares that calculateESPPNetValue finds available.
ESPPAvailableShares ==
    QSub(IF getTime(esppNow) >= getTime(esppGrant.vestingFrom)
         THEN Num(esppGrant.amount) ELSE Zero,
         Num(calculateExercisedShares(esppGrant.amount, exercises)))

\* C24: ESPP without trustee: the discount benefit (fairMarketValue -
\* purchasePrice) x shares is reported as the ordinary-income amount but its
\* tax is not part of the tax payable now: totalTax and the net value of
\* calculateESPPNetValue exclude discountTax, and only the appreciation
\* (salePrice - fairMarketValue) x shares is taxed, at the capital-gains
\* rate if the holding period is met and at the ordinary-income rate if not.
C24_ESPPWithoutTrustee ==
    /\ (esppTax.called /\ esppTax.withTrustee # "true") =>
          /\ esppTax.result.ordinaryIncomeAmount = ESPPDiscountBenefit
          /\ esppTax.result.totalTax =
                AppreciationTax(Num(esppGrant.amount),
                                esppTax.holdingPeriodMet)
    /\ (/\ esppNetValue.called
        /\ esppGrant.isSection102 # "true"
        /\ QLt(Zero, ESPPAvailableShares)) =>
          esppNetValue.value =
             QSub(QMul(ESPPAvailableShares,
                       QSub(ESPPSalePrice, ESPPPurchasePrice)),
                  AppreciationTax(ESPPAvailableShares,
                                  esppNetValueHoldingPeriodMet(
                                      esppGrant.purchaseDate, esppNow)))

\* C25: ESPP with trustee, holding period not met: the whole gain
\* (salePrice - purchasePrice) x shares is ordinary income:
\* ordinaryIncomeAmount is that gain, capitalGainsAmount = 0, totalTax =
\* gain x marginalTaxRate, and discountTax + capitalGainsTax = totalTax for
\* every sale price, a sale below the fair-market value included.
C25_ESPPTrusteeNotMet ==
    (/\ esppTax.called
     /\ esppTax.withTrustee = "true"
     /\ ~esppTax.holdingPeriodMet) =>
        /\ esppTax.result.ordinaryIncomeAmount = ESPPGain
        /\ esppTax.result.capitalGainsAmount = Zero
        /\ esppTax.result.totalTax = QMul(ESPPGain, ESPPRate)
        /\ QAdd(esppTax.result.discountTax, esppTax.result.capitalGainsTax)
              = esppTax.result.totalTax

\* C26: ESPP with trustee, holding period met: discountTax = discount
\* benefit x the marginal rate, capitalGainsTax = 25% of the appreciation,
\* totalTax = discountTax + capitalGainsTax; the estimate of the tax the
\* trustee withholds (62% of the discount benefit plus 25% of the
\* appreciation) is not included in totalTax, and it is >= totalTax
\* whenever the marginal rate is <= 0.62.
C26_ESPPTrusteeMet ==
    (/\ esppTax.called
     /\ esppTax.withTrustee = "true"
     /\ esppTax.holdingPeriodMet) =>
        /\ esppTax.result.discountTax = QMul(ESPPDiscountBenefit, ESPPRate)
        /\ esppTax.result.capitalGainsTax = Percent(ESPPAppreciation, 25)
        /\ esppTax.result.totalTax =
              QAdd(esppTax.result.discountTax, esppTax.result.capitalGainsTax)
        /\ esppTax.result.trusteeTaxWithheld =
              QAdd(Percent(ESPPDiscountBenefit, 62),
                   Percent(ESPPAppreciation, 25))
        /\ esppTaxRate <= 62 =>
              QLe(esppTax.result.totalTax, esppTax.result.trusteeTaxWithheld)

-----------------------------------------------------------------------------
(* Properties of the vesting calculation (specification SpecVesting).      *)

\* The vesting of the schedule: a whole number of quarters of the months
\* since the start, each worth grantAmount / (4 x vestingYears), capped at
\* grantAmount.
QuarterlyVesting(g, dt) ==
    LET monthsSince == monthsDifference(g.vestingFrom, dt)
        quarters == monthsSince \div 3
    IN  QMin(Num(g.amount), Frac(quarters * g.amount, 4 * g.vestingYears))

InGrant(g, v) == QLe(Zero, v) /\ QLe(v, Num(g.amount))

\* C27: for RSU and Option grants calculateVestedShares returns
\* FLOOR(monthsSince / 3) x grantAmount / (4 x vestingYears) capped at
\* grantAmount, and for every current date, the dates before vestingStart
\* included, the result lies in [0, grantAmount] and never decreases as the
\* current date advances.
C27_QuarterlyVesting ==
    vestedShares.called =>
        /\ vestedShares.at = QuarterlyVesting(vestingGrant, vestingDate)
        /\ vestedShares.later = QuarterlyVesting(vestingGrant, vestingLaterDate)
        /\ InGrant(vestingGrant, vestedShares.at)
        /\ InGrant(vestingGrant, vestedShares.later)
        /\ QLe(vestedShares.at, vestedShares.later)

-----------------------------------------------------------------------------
(* Properties of the stores (specification SpecStores).                    *)

\* The amounts of the exercises recorded against the grant of the id.
RECURSIVE RecordedAgainst(_, _)
RecordedAgainst(grantId, exerciseList) ==
    IF exerciseList = <<>> THEN 0
    ELSE (IF Head(exerciseList).grantId = grantId
          THEN Head(exerciseList).amount ELSE 0)
            + RecordedAgainst(grantId, Tail(exerciseList))

\* C28: after any sequence of addGrant, addExercise, updateExercise and
\* deleteExercise the exercised-share count used for a grant is the sum of
\* the amounts of exactly the exercises recorded against that grant, so an
\* exercise recorded against another grant, even one of the same share
\* amount, never changes it.
C28_ExercisedSharesOfGrant ==
    \A i \in 1..Len(grants) :
        calculateExercisedShares(grants[i].amount, exercises)
            = RecordedAgainst(grants[i].id, exercises)

-----------------------------------------------------------------------------
(* Properties of the results of the grant calculations (specification      *)
(* SpecGrantTax).                                                          *)

NonNegativeBreakdown ==
    /\ QLe(Zero, Result.breakdown.incomeTax)
    /\ QLe(Zero, Result.breakdown.nationalInsurance)
    /\ QLe(Zero, Result.breakdown.capitalGainsTax)
    /\ QLe(Zero, Result.breakdown.surtax)

\* C29: for a number of shares, prices and an annual income that are not
\* negative, a positive exchange rate and a marginal rate in [0, 1], every
\* result of calculateRSUTax and of calculateOptionTax has each component of
\* the breakdown >= 0, totalTax equal to the sum of the four components and
\* netGain = grossGain - totalTax, an Eligible RSU of the capital-gains
\* track whose current price is below the price of the grant included.
C29_ResultWellFormed ==
    (/\ taxResult.called
     /\ shares >= 0
     /\ currentPrice >= 0
     /\ taxGrant.price >= 0
     /\ usdToIls > 0) =>
        /\ NonNegativeBreakdown
        /\ Result.totalTax = SumOfBreakdown
        /\ Result.netGain = QSub(Result.grossGain, Result.totalTax)

\* The preferential capital-gains treatment computed the result: an
\* Eligible RSU of the capital-gains track, or Eligible options in the money.
CapitalGainsTreatmentUsed ==
    IF taxGrant.type = "RSUs"
    THEN Eligible /\ taxGrant.section102Track = "capital-gains"
    ELSE Eligible /\ currentPrice > taxGrant.price

\* The income tax of the part of the gain that is not appreciation: the
\* value of an RSU at the price of the grant, nothing for options.
IncomeTaxWithoutAppreciation ==
    IF taxGrant.type = "RSUs"
    THEN ToUsd(IncomeTaxByMode(ToIls(Frac(shares * taxGrant.price,
                                          PriceScale))))
    ELSE Zero

\* C30: section102Applied is true if and only if the preferential
\* capital-gains treatment was used to compute the result: it is false when
\* the whole gain was taxed as ordinary income (grant not Eligible, track
\* disabled, or an RSU whose section102Track is 'ordinary-income' or unset),
\* and when it is true incomeTax is not charged on the appreciation.
C30_Section102AppliedFlag ==
    taxResult.called =>
        /\ Result.breakdown.section102Applied <=> CapitalGainsTreatmentUsed
        /\ Result.breakdown.section102Applied =>
              Result.breakdown.incomeTax = IncomeTaxWithoutAppreciation

=============================================================================
